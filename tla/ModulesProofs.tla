------------------------------ MODULE ModulesProofs ------------------------------
(***************************************************************************)
(* Theorems about the parts of the host's module system that share locks,  *)
(* for any modules, directories, states that callers set and number of     *)
(* callers.                                                                *)
(*                                                                         *)
(* ModuleRegistry: the two locks keep the two maps in agreement, and what  *)
(* a call saw before it gave a lock back holds when it writes, unless      *)
(* another call overtook it.                                               *)
(*                                                                         *)
(* LifecycleManager: a report of health_check_all is of one moment, and a  *)
(* call moves its module as documented unless it was disturbed.            *)
(*                                                                         *)
(* The ground of both is a lock's queue: a ticket in it belongs to a call  *)
(* that waits there, with that kind, and no call has two.                  *)
(*                                                                         *)
(* DependencyGraph: the two maps mirror each other, and on such maps, and  *)
(* on any declarations, every walk, sort and resolution gives what it is   *)
(* for.  The ground of these is what a loop over a list keeps true, and an *)
(* induction on how deep a walk may go.                                    *)
(***************************************************************************)
EXTENDS ModuleRegistry, LifecycleManager, DependencyGraph, Integers, FiniteSetTheorems,
        SequenceTheorems, NaturalsInduction, WellFoundedInduction, TLAPS

-------------------------------------------------------------------------------
(* Queues of tickets *)

Tickets(q) == {q[i] : i \in 1..Len(q)}
Lone(q) == \A i, j \in 1..Len(q) : q[i][1] = q[j][1] => i = j

\* Who has no ticket in a queue may take one.
LEMMA AskQueue ==
    ASSUME NEW T, NEW q \in Seq(T), Lone(q), NEW x \in T,
           \A y \in Tickets(q) : y[1] # x[1]
    PROVE  /\ Append(q, x) \in Seq(T)
           /\ Tickets(Append(q, x)) = Tickets(q) \cup {x}
           /\ Lone(Append(q, x))
<1>1. /\ Append(q, x) \in Seq(T)
      /\ Len(Append(q, x)) = Len(q) + 1 /\ Len(q) \in Nat
      /\ \A i \in 1..Len(q) : Append(q, x)[i] = q[i]
      /\ Append(q, x)[Len(q) + 1] = x
  OBVIOUS
<1>2. Tickets(Append(q, x)) = Tickets(q) \cup {x}
  <2>1. \A y \in Tickets(Append(q, x)) : y \in Tickets(q) \cup {x}
    <3> SUFFICES ASSUME NEW i \in 1..(Len(q) + 1)
                 PROVE  Append(q, x)[i] \in Tickets(q) \cup {x}
      BY <1>1 DEF Tickets
    <3> QED
      BY <1>1 DEF Tickets
  <2>2. \A y \in Tickets(q) : y \in Tickets(Append(q, x))
    <3> SUFFICES ASSUME NEW i \in 1..Len(q)
                 PROVE  q[i] \in Tickets(Append(q, x))
      BY DEF Tickets
    <3>1. i \in 1..(Len(q) + 1) /\ Append(q, x)[i] = q[i]
      BY <1>1
    <3> QED
      BY <1>1, <3>1 DEF Tickets
  <2>3. x \in Tickets(Append(q, x))
    <3>1. Len(q) + 1 \in 1..(Len(q) + 1)
      BY <1>1
    <3> QED
      BY <1>1, <3>1 DEF Tickets
  <2> QED
    BY <2>1, <2>2, <2>3
<1>3. Lone(Append(q, x))
  <2>1. \A i \in 1..Len(q) : q[i][1] # x[1]
    BY DEF Tickets
  <2> SUFFICES ASSUME NEW i \in 1..(Len(q) + 1), NEW j \in 1..(Len(q) + 1),
                      Append(q, x)[i][1] = Append(q, x)[j][1]
               PROVE  i = j
    BY <1>1 DEF Lone
  <2>2. CASE i \in 1..Len(q) /\ j \in 1..Len(q)
    BY <2>2, <1>1 DEF Lone
  <2>3. CASE i \in 1..Len(q) /\ j = Len(q) + 1
    BY <2>3, <2>1, <1>1
  <2>4. CASE i = Len(q) + 1 /\ j \in 1..Len(q)
    BY <2>4, <2>1, <1>1
  <2> QED
    BY <2>2, <2>3, <2>4, <1>1
<1> QED
  BY <1>1, <1>2, <1>3

\* Who leaves the head of a queue has no other ticket in it.
LEMMA PassQueue ==
    ASSUME NEW T, NEW q \in Seq(T), Lone(q), q # <<>>
    PROVE  /\ Tail(q) \in Seq(T)
           /\ Head(q) \in Tickets(q)
           /\ Tickets(Tail(q)) = {y \in Tickets(q) : y[1] # Head(q)[1]}
           /\ Lone(Tail(q))
<1>1. /\ Tail(q) \in Seq(T)
      /\ Len(q) \in Nat /\ Len(q) >= 1 /\ Len(Tail(q)) = Len(q) - 1
      /\ Head(q) = q[1]
      /\ \A i \in 1..(Len(q) - 1) : Tail(q)[i] = q[i + 1]
  OBVIOUS
<1>2. Head(q) \in Tickets(q)
  <2>1. 1 \in 1..Len(q)
    BY <1>1
  <2> QED
    BY <1>1, <2>1 DEF Tickets
<1>3. Tickets(Tail(q)) = {y \in Tickets(q) : y[1] # Head(q)[1]}
  <2>1. ASSUME NEW i \in 1..(Len(q) - 1)
        PROVE  Tail(q)[i] \in Tickets(q) /\ Tail(q)[i][1] # Head(q)[1]
    <3>1. i + 1 \in 1..Len(q) /\ 1 \in 1..Len(q) /\ i + 1 # 1 /\ Tail(q)[i] = q[i + 1]
      BY <1>1
    <3> QED
      BY <1>1, <3>1 DEF Tickets, Lone
  <2>2. ASSUME NEW i \in 1..Len(q), q[i][1] # Head(q)[1]
        PROVE  q[i] \in Tickets(Tail(q))
    <3>1. i # 1
      BY <1>1, <2>2
    <3>2. i - 1 \in 1..(Len(q) - 1) /\ Tail(q)[i - 1] = q[(i - 1) + 1] /\ (i - 1) + 1 = i
      BY <1>1, <3>1
    <3> QED
      BY <1>1, <3>2 DEF Tickets
  <2> QED
    BY <1>1, <2>1, <2>2 DEF Tickets
<1>4. Lone(Tail(q))
  <2> SUFFICES ASSUME NEW i \in 1..(Len(q) - 1), NEW j \in 1..(Len(q) - 1),
                      Tail(q)[i][1] = Tail(q)[j][1]
               PROVE  i = j
    BY <1>1 DEF Lone
  <2>1. i + 1 \in 1..Len(q) /\ j + 1 \in 1..Len(q) /\ q[i + 1][1] = q[j + 1][1]
    BY <1>1
  <2>2. i + 1 = j + 1
    BY <2>1 DEF Lone
  <2> QED
    BY <2>2
<1> QED
  BY <1>1, <1>2, <1>3, <1>4

-------------------------------------------------------------------------------
(* ModuleRegistry: calls and the two locks *)

AllTickets == RegistryTasks \X {"read", "write"}
Lockings == [held : SUBSET (RegistryTasks \X {"write"}), queue : Seq(AllTickets)]

\* What each call brings with it, by its operation and by its place.
CallInv ==
    /\ lock \in [Locks -> Lockings]
    /\ rpc \in [RegistryTasks -> RegistryPlaces]
    /\ request \in [RegistryTasks -> Requests]
    /\ todo \in [RegistryTasks -> SUBSET Paths]
    /\ overtaken \in [RegistryTasks -> BOOLEAN]
    /\ \A t \in RegistryTasks :
          /\ request[t].op \in {"register", "unregister", "set"} => request[t].id \in Ids
          /\ request[t].op = "register" => request[t].arg \in Paths
          /\ request[t].op = "set" => request[t].arg \in SettableStates
          /\ request[t].op = "look" => request[t].arg \in Locks
          /\ rpc[t] = "look" => request[t].op = "look"
          /\ rpc[t] = "check" => request[t].op \in {"register", "unregister"}
          /\ rpc[t] \in {"first", "second", "both", "half"} =>
                request[t].op \in {"register", "unregister", "set", "clear"}

\* The lock that a call waits for, and how.
Wants(t, l, k) ==
    \/ rpc[t] = "look" /\ l = request[t].arg /\ k = "read"
    \/ /\ rpc[t] = "check" /\ k = "read"
       /\ l = (IF request[t].op = "register" THEN "modules" ELSE "states")
    \/ rpc[t] = "first" /\ l = First(t) /\ k = "write"
    \/ rpc[t] = "second" /\ l = Second(t) /\ k = "write"

\* The locks that a call has taken.
Has(t, l) == rpc[t] \in {"both", "half"} \/ (rpc[t] = "second" /\ l = First(t))

QueueInv ==
    \A l \in Locks : /\ Lone(lock[l].queue)
                     /\ \A y \in Tickets(lock[l].queue) : Wants(y[1], l, y[2])

HeldInv ==
    \A l \in Locks : /\ \A t \in RegistryTasks : <<t, "write">> \in lock[l].held <=> Has(t, l)
                     /\ \A h, g \in lock[l].held : h = g

LockInv == CallInv /\ QueueInv /\ HeldInv

OnlyMoves(t) ==
    \A u \in RegistryTasks \ {t} : rpc'[u] = rpc[u] /\ request'[u] = request[u]

\* What a step of one call may do to a queue.
LEMMA QueueStep ==
    ASSUME LockInv, CallInv', NEW t \in RegistryTasks, OnlyMoves(t),
           \A l \in Locks :
              \/ lock'[l].queue = lock[l].queue /\ \A k : ~Wants(t, l, k)
              \/ \E k \in {"read", "write"} :
                    /\ lock'[l].queue = Append(lock[l].queue, <<t, k>>)
                    /\ Wants(t, l, k)' /\ \A j : ~Wants(t, l, j)
              \/ MayEnter(lock[l], t) /\ lock'[l].queue = Tail(lock[l].queue)
              \/ \E k \in {"read", "write"} :
                    /\ MayEnter(lock[l], t)
                    /\ lock'[l].queue = Append(Tail(lock[l].queue), <<t, k>>)
                    /\ Wants(t, l, k)'
    PROVE  QueueInv'
<1> SUFFICES ASSUME NEW l \in Locks
             PROVE  /\ Lone(lock'[l].queue)
                    /\ \A y \in Tickets(lock'[l].queue) : Wants(y[1], l, y[2])'
  BY DEF QueueInv, Tickets, Lone
<1> DEFINE q == lock[l].queue
<1>1. q \in Seq(AllTickets) /\ Lone(q) /\ \A y \in Tickets(q) : Wants(y[1], l, y[2])
  BY DEF LockInv, CallInv, QueueInv, Lockings
<1>2. \A y \in Tickets(q) : y \in AllTickets /\ y[1] \in RegistryTasks
  BY <1>1 DEF Tickets, AllTickets
<1>3. \A u \in RegistryTasks \ {t} : \A k : Wants(u, l, k) => Wants(u, l, k)'
  BY DEF OnlyMoves, Wants, First, Second
<1>4. ASSUME \A k : ~Wants(t, l, k)
      PROVE  \A y \in Tickets(q) : y[1] # t /\ Wants(y[1], l, y[2])'
  BY <1>1, <1>2, <1>3, <1>4
<1>5. ASSUME MayEnter(lock[l], t)
      PROVE  /\ Tail(q) \in Seq(AllTickets) /\ Lone(Tail(q))
             /\ \A y \in Tickets(Tail(q)) : y[1] # t /\ Wants(y[1], l, y[2])'
  <2>1. q # <<>> /\ Head(q)[1] = t
    BY <1>5 DEF MayEnter
  <2>2. Tail(q) \in Seq(AllTickets) /\ Lone(Tail(q))
        /\ Tickets(Tail(q)) = {y \in Tickets(q) : y[1] # Head(q)[1]}
    BY <1>1, <2>1, PassQueue
  <2> QED
    BY <2>1, <2>2, <1>1, <1>2, <1>3
<1>6. CASE lock'[l].queue = q /\ \A k : ~Wants(t, l, k)
  BY <1>6, <1>4, <1>1
<1>7. ASSUME NEW r \in Seq(AllTickets), Lone(r), NEW k \in {"read", "write"},
             lock'[l].queue = Append(r, <<t, k>>), Wants(t, l, k)',
             \A y \in Tickets(r) : y[1] # t /\ Wants(y[1], l, y[2])'
      PROVE  /\ Lone(lock'[l].queue)
             /\ \A y \in Tickets(lock'[l].queue) : Wants(y[1], l, y[2])'
  <2>1. <<t, k>> \in AllTickets /\ <<t, k>>[1] = t /\ <<t, k>>[2] = k
    BY DEF AllTickets
  <2>2. Tickets(Append(r, <<t, k>>)) = Tickets(r) \cup {<<t, k>>} /\ Lone(Append(r, <<t, k>>))
    BY <1>7, <2>1, AskQueue
  <2> QED
    BY <1>7, <2>1, <2>2
<1>8. CASE \E k \in {"read", "write"} :
              /\ lock'[l].queue = Append(q, <<t, k>>)
              /\ Wants(t, l, k)' /\ \A j : ~Wants(t, l, j)
  BY <1>8, <1>4, <1>1, <1>7
<1>9. CASE MayEnter(lock[l], t) /\ lock'[l].queue = Tail(q)
  BY <1>9, <1>5
<1>10. CASE \E k \in {"read", "write"} :
              /\ MayEnter(lock[l], t)
              /\ lock'[l].queue = Append(Tail(q), <<t, k>>)
              /\ Wants(t, l, k)'
  BY <1>10, <1>5, <1>7
<1> QED
  BY <1>6, <1>8, <1>9, <1>10

\* A writer that enters is the only one inside.
LEMMA WriterEnters ==
    ASSUME LockInv, NEW t \in RegistryTasks, NEW l \in Locks,
           MayEnter(lock[l], t), rpc[t] \in {"first", "second"}
    PROVE  Head(lock[l].queue) = <<t, "write">> /\ lock[l].held = {} /\ Wants(t, l, "write")
<1> DEFINE q == lock[l].queue
<1>1. q \in Seq(AllTickets) /\ Lone(q) /\ q # <<>> /\ Head(q)[1] = t
  BY DEF LockInv, CallInv, QueueInv, Lockings, MayEnter
<1>2. Head(q) \in Tickets(q)
  BY <1>1, PassQueue
<1>3. Head(q) \in AllTickets /\ Wants(t, l, Head(q)[2])
  BY <1>1, <1>2 DEF Tickets, LockInv, QueueInv
<1>4. Head(q)[2] = "write"
  BY <1>3 DEF Wants
<1>5. Head(q) = <<t, "write">>
  BY <1>1, <1>3, <1>4 DEF AllTickets
<1> QED
  BY <1>3, <1>4, <1>5 DEF MayEnter

\* What a step of one call may do to those inside.
LEMMA HeldStep ==
    ASSUME LockInv, NEW t \in RegistryTasks, OnlyMoves(t),
           \A l \in Locks :
              \/ lock'[l].held = lock[l].held /\ (Has(t, l)' <=> Has(t, l))
              \/ /\ MayEnter(lock[l], t) /\ rpc[t] \in {"first", "second"}
                 /\ lock'[l].held = lock[l].held \cup {Head(lock[l].queue)}
                 /\ Has(t, l)'
              \/ lock'[l].held = lock[l].held \ {<<t, "write">>} /\ ~Has(t, l)'
    PROVE  HeldInv'
<1> SUFFICES ASSUME NEW l \in Locks
             PROVE  /\ \A u \in RegistryTasks : <<u, "write">> \in lock'[l].held <=> Has(u, l)'
                    /\ \A h, g \in lock'[l].held : h = g
  BY DEF HeldInv
<1>1. /\ \A u \in RegistryTasks : <<u, "write">> \in lock[l].held <=> Has(u, l)
      /\ \A h, g \in lock[l].held : h = g
  BY DEF LockInv, HeldInv
<1>2. \A u \in RegistryTasks \ {t} : Has(u, l)' <=> Has(u, l)
  BY DEF OnlyMoves, Has, First
<1>3. CASE lock'[l].held = lock[l].held /\ (Has(t, l)' <=> Has(t, l))
  BY <1>1, <1>2, <1>3
<1>4. CASE /\ MayEnter(lock[l], t) /\ rpc[t] \in {"first", "second"}
           /\ lock'[l].held = lock[l].held \cup {Head(lock[l].queue)}
           /\ Has(t, l)'
  <2>1. lock[l].held = {} /\ lock'[l].held = {<<t, "write">>}
    BY <1>4, WriterEnters
  <2>2. \A u \in RegistryTasks : <<u, "write">> = <<t, "write">> => u = t
    OBVIOUS
  <2> QED
    BY <1>1, <1>2, <1>4, <2>1, <2>2
<1>5. CASE lock'[l].held = lock[l].held \ {<<t, "write">>} /\ ~Has(t, l)'
  <2>1. \A u \in RegistryTasks : <<u, "write">> = <<t, "write">> => u = t
    OBVIOUS
  <2> QED
    BY <1>1, <1>2, <1>5, <2>1
<1> QED
  BY <1>3, <1>4, <1>5

LEMMA InitLockInv == RegistryInit => LockInv
<1> SUFFICES ASSUME RegistryInit PROVE LockInv
  OBVIOUS
<1>1. CallInv
  <2>1. lock \in [Locks -> Lockings]
    <3>1. Unlocked \in Lockings
      BY DEF Unlocked, Lockings
    <3> QED
      BY <3>1 DEF RegistryInit
  <2>2. NoRequest \in Requests
    BY DEF NoRequest, Requests
  <2> QED
    BY <2>1, <2>2 DEF RegistryInit, CallInv, RegistryPlaces, NoRequest
<1>2. QueueInv
  <2>1. Tickets(<<>>) = {} /\ Lone(<<>>)
    BY DEF Tickets, Lone
  <2> QED
    BY <2>1 DEF RegistryInit, QueueInv, Unlocked
<1>3. HeldInv
  BY DEF RegistryInit, HeldInv, Has, Unlocked
<1> QED
  BY <1>1, <1>2, <1>3 DEF LockInv

-------------------------------------------------------------------------------
(* The steps of a call *)

\* The operations of the lock, field by field.
LEMMA LockOperations ==
    ASSUME NEW v \in Lockings, NEW t \in RegistryTasks, NEW k \in {"read", "write"}
    PROVE  /\ Ask(v, t, k) \in Lockings
           /\ Ask(v, t, k).queue = Append(v.queue, <<t, k>>) /\ Ask(v, t, k).held = v.held
           /\ v.queue # <<>> => Pass(v) \in Lockings
           /\ Pass(v).queue = Tail(v.queue) /\ Pass(v).held = v.held
           /\ (v.queue # <<>> /\ Head(v.queue) = <<t, "write">>) => Enter(v) \in Lockings
           /\ Enter(v).queue = Tail(v.queue) /\ Enter(v).held = v.held \cup {Head(v.queue)}
           /\ Leave(v, t, "write") \in Lockings
           /\ Leave(v, t, "write").queue = v.queue
           /\ Leave(v, t, "write").held = v.held \ {<<t, "write">>}
<1>1. v.queue \in Seq(AllTickets) /\ v.held \in SUBSET (RegistryTasks \X {"write"})
  BY DEF Lockings
<1>2. PICK h, q : v = [held |-> h, queue |-> q]
  BY DEF Lockings
<1>3. Append(v.queue, <<t, k>>) \in Seq(AllTickets)
  BY <1>1 DEF AllTickets
<1>4. v.queue # <<>> => Tail(v.queue) \in Seq(AllTickets)
  BY <1>1
<1>5. Ask(v, t, k) = [held |-> v.held, queue |-> Append(v.queue, <<t, k>>)]
  BY <1>2 DEF Ask
<1>6. Pass(v) = [held |-> v.held, queue |-> Tail(v.queue)]
  <2>1. \A x : [v EXCEPT !.queue = x] = [held |-> v.held, queue |-> x]
    BY <1>2
  <2> QED
    BY <2>1, Zenon DEF Pass
<1>7. Leave(v, t, "write") = [held |-> v.held \ {<<t, "write">>}, queue |-> v.queue]
  BY <1>2 DEF Leave
<1>8. Enter(v) = [held |-> v.held \cup {Head(v.queue)}, queue |-> Tail(v.queue)]
  BY DEF Enter
<1>9. <<t, "write">> \in RegistryTasks \X {"write"}
  OBVIOUS
<1> QED
  BY <1>1, <1>3, <1>4, <1>5, <1>6, <1>7, <1>8, <1>9 DEF Lockings

LEMMA TwoLocks ==
    \A t : /\ First(t) \in Locks /\ Second(t) \in Locks /\ First(t) # Second(t)
           /\ \A l \in Locks : l = First(t) \/ l = Second(t)
  BY DEF First, Second, FirstLock, Locks

\* Calls keep their shape.
LEMMA NextCallInv ==
    ASSUME LockInv, NEW t \in RegistryTasks, RegistryCall(t) \/ RegistryStep(t)
    PROVE  CallInv' /\ OnlyMoves(t)
<1> USE DEF Goes, EndCall, OnlyMoves, mapVars, RegistryPlaces
<1>0. CallInv
  BY DEF LockInv
<1>1. NoRequest \in Requests /\ NoRequest.op = "none"
  BY DEF NoRequest, Requests
<1>2. \A l \in Locks : /\ \A k \in {"read", "write"} : Ask(lock[l], t, k) \in Lockings
                       /\ MayEnter(lock[l], t) => Pass(lock[l]) \in Lockings
                       /\ MayEnter(lock[l], t) =>
                             \A k \in {"read", "write"} : Ask(Pass(lock[l]), t, k) \in Lockings
                       /\ (MayEnter(lock[l], t) /\ rpc[t] \in {"first", "second"}) =>
                             Enter(lock[l]) \in Lockings
                       /\ Leave(lock[l], t, "write") \in Lockings
  <2> TAKE l \in Locks
  <2>1. lock[l] \in Lockings
    BY <1>0 DEF CallInv
  <2>2. MayEnter(lock[l], t) => Pass(lock[l]) \in Lockings
    BY <2>1, LockOperations DEF MayEnter
  <2>3. (MayEnter(lock[l], t) /\ rpc[t] \in {"first", "second"}) => Enter(lock[l]) \in Lockings
    BY <2>1, LockOperations, WriterEnters DEF MayEnter
  <2> QED
    BY <2>1, <2>2, <2>3, LockOperations
<1>3. ASSUME NEW P \in SUBSET Paths, Scan(t, P) PROVE CallInv' /\ OnlyMoves(t)
  BY <1>0, <1>3 DEF Scan, CallInv
<1>4. ASSUME Register(t) PROVE CallInv' /\ OnlyMoves(t)
  BY <1>3, <1>4 DEF Register
<1>5. ASSUME NEW p \in Paths, NextEntry(t, p) PROVE CallInv' /\ OnlyMoves(t)
  <2>1. [op |-> "register", id |-> IdOf[p], arg |-> p] \in Requests /\ IdOf[p] \in Ids
    BY RegistryAssumption DEF RegistryAssumption, Requests
  <2>2. lock' \in [Locks -> Lockings]
    BY <1>0, <1>2, <1>5 DEF NextEntry, CallInv, Asks, Locks
  <2> QED
    BY <1>0, <1>5, <2>1, <2>2 DEF NextEntry, CallInv
<1>6. ASSUME ScanEnds(t) PROVE CallInv' /\ OnlyMoves(t)
  BY <1>0, <1>1, <1>6 DEF ScanEnds, CallInv
<1>7. ASSUME NEW i \in Ids, Unregister(t, i) PROVE CallInv' /\ OnlyMoves(t)
  <2>1. [op |-> "unregister", id |-> i, arg |-> Absent] \in Requests
    BY DEF Requests
  <2>2. lock' \in [Locks -> Lockings]
    BY <1>0, <1>2, <1>7 DEF Unregister, CallInv, Asks, Locks
  <2> QED
    BY <1>0, <1>7, <2>1, <2>2 DEF Unregister, CallInv
<1>8. ASSUME NEW i \in Ids, NEW s \in SettableStates, SetState(t, i, s)
      PROVE  CallInv' /\ OnlyMoves(t)
  <2>1. [op |-> "set", id |-> i, arg |-> s] \in Requests
    BY DEF Requests
  <2>2. lock' \in [Locks -> Lockings]
    BY <1>0, <1>2, <1>8 DEF SetState, CallInv, Asks, FirstLock, Locks
  <2> QED
    BY <1>0, <1>8, <2>1, <2>2 DEF SetState, CallInv
<1>9. ASSUME Clear(t) PROVE CallInv' /\ OnlyMoves(t)
  <2>1. [op |-> "clear", id |-> Absent, arg |-> Absent] \in Requests
    BY DEF Requests
  <2>2. lock' \in [Locks -> Lockings]
    BY <1>0, <1>2, <1>9 DEF Clear, CallInv, Asks, FirstLock, Locks
  <2> QED
    BY <1>0, <1>9, <2>1, <2>2 DEF Clear, CallInv
<1>10. ASSUME NEW l \in Locks, Look(t, l) PROVE CallInv' /\ OnlyMoves(t)
  <2>1. [op |-> "look", id |-> Absent, arg |-> l] \in Requests
    BY DEF Requests
  <2>2. lock' \in [Locks -> Lockings]
    BY <1>0, <1>2, <1>10 DEF Look, CallInv, Asks
  <2> QED
    BY <1>0, <1>10, <2>1, <2>2 DEF Look, CallInv
<1>11. ASSUME Looked(t) PROVE CallInv' /\ OnlyMoves(t)
  <2>1. request[t].arg \in Locks
    BY <1>0, <1>11 DEF Looked, CallInv
  <2>2. lock' \in [Locks -> Lockings]
    BY <1>0, <1>2, <1>11, <2>1 DEF Looked, CallInv
  <2> QED
    BY <1>0, <1>1, <1>11, <2>2 DEF Looked, CallInv
<1>12. ASSUME CheckDuplicate(t) PROVE CallInv' /\ OnlyMoves(t)
  <2>1. lock' \in [Locks -> Lockings]
    BY <1>0, <1>2, <1>12 DEF CheckDuplicate, CallInv, Locks
  <2> QED
    BY <1>0, <1>12, <2>1 DEF CheckDuplicate, CallInv
<1>13. ASSUME CheckUnregister(t) PROVE CallInv' /\ OnlyMoves(t)
  <2>1. lock' \in [Locks -> Lockings]
    BY <1>0, <1>2, <1>13 DEF CheckUnregister, CallInv, Locks
  <2> QED
    BY <1>0, <1>1, <1>13, <2>1 DEF CheckUnregister, CallInv
<1>14. ASSUME EnterFirst(t) PROVE CallInv' /\ OnlyMoves(t)
  <2>1. lock' \in [Locks -> Lockings]
    BY <1>0, <1>2, <1>14, TwoLocks DEF EnterFirst, CallInv
  <2> QED
    BY <1>0, <1>14, <2>1 DEF EnterFirst, CallInv
<1>15. ASSUME EnterSecond(t) PROVE CallInv' /\ OnlyMoves(t)
  <2>1. lock' \in [Locks -> Lockings]
    BY <1>0, <1>2, <1>15, TwoLocks DEF EnterSecond, CallInv
  <2> QED
    BY <1>0, <1>15, <2>1 DEF EnterSecond, CallInv
<1>16. Unlock(t) => lock' \in [Locks -> Lockings]
  BY <1>2 DEF Unlock
<1>17. \A I : Overtakes(t, I) => overtaken' \in [RegistryTasks -> BOOLEAN]
  <2> SUFFICES ASSUME NEW I, Overtakes(t, I)
               PROVE  overtaken' \in [RegistryTasks -> BOOLEAN]
    OBVIOUS
  <2>1. \A u \in RegistryTasks : (overtaken[u] \/ (u # t /\ request[u].id \in I)) \in BOOLEAN
    OBVIOUS
  <2> QED
    BY <2>1 DEF Overtakes
<1>18. ASSUME InsertModule(t) \/ EraseModule(t) \/ ClearModules(t) \/ WriteState(t)
       PROVE  CallInv' /\ OnlyMoves(t)
  BY <1>0, <1>17, <1>18 DEF InsertModule, EraseModule, ClearModules, WriteState, CallInv
<1>19. ASSUME InsertState(t) PROVE CallInv' /\ OnlyMoves(t)
  BY <1>0, <1>16, <1>19 DEF InsertState, CallInv
<1>20. ASSUME RemoveState(t) \/ ClearStates(t) \/ SetNotFound(t) \/ WriteInfo(t)
       PROVE  CallInv' /\ OnlyMoves(t)
  BY <1>0, <1>1, <1>16, <1>20 DEF RemoveState, ClearStates, SetNotFound, WriteInfo, CallInv
<1> QED
  BY <1>3, <1>4, <1>5, <1>6, <1>7, <1>8, <1>9, <1>10, <1>11, <1>12, <1>13, <1>14, <1>15,
     <1>18, <1>19, <1>20
  DEF RegistryCall, RegistryStep

\* A step that leaves the locks alone, of a call that neither waits nor holds, or of one that
\* holds both.
LEMMA LocksAlone ==
    ASSUME LockInv, NEW t \in RegistryTasks, CallInv', OnlyMoves(t), lock' = lock,
           \/ rpc[t] \in {"idle", "entry"} /\ rpc'[t] \in {"idle", "entry"}
           \/ rpc[t] = "both" /\ rpc'[t] = "half"
    PROVE  LockInv'
<1>1. \A l \in Locks : lock'[l].queue = lock[l].queue /\ (\A k : ~Wants(t, l, k))
  BY DEF Wants
<1>2. QueueInv'
  BY <1>1, QueueStep
<1>3. \A l \in Locks : lock'[l].held = lock[l].held /\ (Has(t, l)' <=> Has(t, l))
  BY DEF Has
<1>4. HeldInv'
  BY <1>3, HeldStep
<1> QED
  BY <1>2, <1>4 DEF LockInv

\* A call that neither waits nor holds asks for a lock.
LEMMA LockAsked ==
    ASSUME LockInv, NEW t \in RegistryTasks, CallInv', OnlyMoves(t),
           NEW a \in Locks, NEW k \in {"read", "write"}, Asks(t, a, k),
           rpc[t] \in {"idle", "entry"},
           rpc'[t] \in {"look", "check", "first"}, Wants(t, a, k)'
    PROVE  LockInv'
<1>0. lock \in [Locks -> Lockings]
  BY DEF LockInv, CallInv
<1>1. /\ lock'[a].queue = Append(lock[a].queue, <<t, k>>)
      /\ \A l \in Locks : l # a => lock'[l].queue = lock[l].queue
      /\ \A l \in Locks : lock'[l].held = lock[l].held
  <2>1. lock'[a] = Ask(lock[a], t, k) /\ \A l \in Locks : l # a => lock'[l] = lock[l]
    BY <1>0 DEF Asks
  <2>2. lock[a] \in Lockings
    BY <1>0
  <2>3. Ask(lock[a], t, k).queue = Append(lock[a].queue, <<t, k>>)
        /\ Ask(lock[a], t, k).held = lock[a].held
    BY <2>2, LockOperations
  <2> QED
    BY <2>1, <2>3
<1>2. \A l \in Locks : \A j : ~Wants(t, l, j)
  BY DEF Wants
<1>3. QueueInv'
  BY <1>1, <1>2, QueueStep
<1>4. \A l \in Locks : lock'[l].held = lock[l].held /\ (Has(t, l)' <=> Has(t, l))
  BY <1>1 DEF Has
<1>5. HeldInv'
  BY <1>4, HeldStep
<1> QED
  BY <1>3, <1>5 DEF LockInv

\* A reader goes through a lock, and waits for none after it.
LEMMA LockPassed ==
    ASSUME LockInv, NEW t \in RegistryTasks, CallInv', OnlyMoves(t),
           NEW a \in Locks, MayEnter(lock[a], t), lock' = [lock EXCEPT ![a] = Pass(@)],
           rpc[t] \in {"look", "check"}, Wants(t, a, "read"),
           rpc'[t] \in {"idle", "entry"}
    PROVE  LockInv'
<1>0. lock \in [Locks -> Lockings]
  BY DEF LockInv, CallInv
<1>1. /\ lock'[a].queue = Tail(lock[a].queue)
      /\ \A l \in Locks : l # a => lock'[l].queue = lock[l].queue
      /\ \A l \in Locks : lock'[l].held = lock[l].held
  <2>1. lock'[a] = Pass(lock[a]) /\ \A l \in Locks : l # a => lock'[l] = lock[l]
    BY <1>0
  <2>2. /\ Pass(lock[a]).queue = Tail(lock[a].queue)
        /\ \A l \in Locks : Pass(lock[l]).held = lock[l].held
    BY <1>0, LockOperations
  <2> QED
    BY <2>1, <2>2
<1>2. \A l \in Locks : l # a => \A j : ~Wants(t, l, j)
  BY DEF Wants
<1>3. QueueInv'
  BY <1>1, <1>2, QueueStep
<1>4. \A l \in Locks : lock'[l].held = lock[l].held /\ (Has(t, l)' <=> Has(t, l))
  BY <1>1 DEF Has
<1>5. HeldInv'
  BY <1>4, HeldStep
<1> QED
  BY <1>3, <1>5 DEF LockInv

\* A writer that has done both halves gives both locks back.
LEMMA LocksReleased ==
    ASSUME LockInv, NEW t \in RegistryTasks, CallInv', OnlyMoves(t), Unlock(t),
           rpc[t] \in {"both", "half"}, rpc'[t] \in {"idle", "entry"}
    PROVE  LockInv'
<1>0. lock \in [Locks -> Lockings]
  BY DEF LockInv, CallInv
<1>1. \A l \in Locks : /\ lock'[l].queue = lock[l].queue
                       /\ lock'[l].held = lock[l].held \ {<<t, "write">>}
  <2>1. \A l \in Locks : lock'[l] = Leave(lock[l], t, "write")
    BY DEF Unlock
  <2> QED
    BY <1>0, <2>1, LockOperations
<1>2. \A l \in Locks : (\A k : ~Wants(t, l, k)) /\ ~Has(t, l)'
  BY DEF Wants, Has
<1>3. QueueInv'
  BY <1>1, <1>2, QueueStep
<1>4. HeldInv'
  BY <1>1, <1>2, HeldStep
<1> QED
  BY <1>3, <1>4 DEF LockInv

\* register() goes from its check to the queue of writers of the same lock.
LEMMA DuplicateChecked ==
    ASSUME LockInv, NEW t \in RegistryTasks, CallInv', OnlyMoves(t), CheckDuplicate(t)
    PROVE  LockInv'
<1>0. lock \in [Locks -> Lockings] /\ "modules" \in Locks
  BY DEF LockInv, CallInv, Locks
<1>a. rpc[t] = "check" /\ request[t].op = "register" /\ MayEnter(lock["modules"], t)
      /\ Wants(t, "modules", "read")
  BY DEF CheckDuplicate, Wants
<1>1. CASE lock' = [lock EXCEPT !["modules"] = Pass(@)] /\ Goes(t, "entry")
  <2>1. rpc'[t] = "entry"
    BY <1>1 DEF LockInv, CallInv, Goes
  <2> QED
    BY <1>0, <1>a, <1>1, <2>1, LockPassed
<1>2. CASE lock' = [lock EXCEPT !["modules"] = Ask(Pass(@), t, "write")] /\ Goes(t, "first")
  <2>1. rpc'[t] = "first" /\ request' = request
    BY <1>2 DEF LockInv, CallInv, Goes, CheckDuplicate
  <2>2. /\ lock'["modules"].queue = Append(Tail(lock["modules"].queue), <<t, "write">>)
        /\ \A l \in Locks : l # "modules" => lock'[l].queue = lock[l].queue
        /\ \A l \in Locks : lock'[l].held = lock[l].held
    <3>1. /\ lock'["modules"] = Ask(Pass(lock["modules"]), t, "write")
          /\ \A l \in Locks : l # "modules" => lock'[l] = lock[l]
      BY <1>0, <1>2
    <3>2. lock["modules"] \in Lockings /\ Pass(lock["modules"]) \in Lockings
      BY <1>0, <1>a, LockOperations DEF MayEnter
    <3>3. /\ Pass(lock["modules"]).queue = Tail(lock["modules"].queue)
          /\ Pass(lock["modules"]).held = lock["modules"].held
      BY <1>0, LockOperations
    <3>4. LET v == Pass(lock["modules"])
          IN  /\ Ask(v, t, "write").queue = Append(v.queue, <<t, "write">>)
              /\ Ask(v, t, "write").held = v.held
      BY <3>2, LockOperations
    <3> QED
      BY <3>1, <3>3, <3>4
  <2>3. Wants(t, "modules", "write")'
    BY <1>a, <2>1 DEF Wants, First, FirstLock
  <2>4. \A l \in Locks : l # "modules" => \A j : ~Wants(t, l, j)
    BY <1>a DEF Wants
  <2>5. QueueInv'
    BY <1>a, <2>2, <2>3, <2>4, QueueStep
  <2>6. \A l \in Locks : lock'[l].held = lock[l].held /\ (Has(t, l)' <=> Has(t, l))
    BY <1>a, <2>1, <2>2 DEF Has
  <2>7. HeldInv'
    BY <2>6, HeldStep
  <2> QED
    BY <2>5, <2>7 DEF LockInv
<1> QED
  BY <1>1, <1>2 DEF CheckDuplicate

\* unregister() looks at one lock's map and waits for the other lock.
LEMMA UnregisterChecked ==
    ASSUME LockInv, NEW t \in RegistryTasks, CallInv', OnlyMoves(t), CheckUnregister(t)
    PROVE  LockInv'
<1>0. lock \in [Locks -> Lockings] /\ Locks = {"modules", "states"}
  BY DEF LockInv, CallInv, Locks
<1>a. rpc[t] = "check" /\ request[t].op = "unregister" /\ MayEnter(lock["states"], t)
      /\ Wants(t, "states", "read") /\ \A j : ~Wants(t, "modules", j)
  BY DEF CheckUnregister, Wants
<1>1. CASE lock' = [lock EXCEPT !["states"] = Pass(@)] /\ EndCall(t)
  <2>1. rpc'[t] = "idle"
    BY <1>1 DEF LockInv, CallInv, EndCall, Goes
  <2> QED
    BY <1>0, <1>a, <1>1, <2>1, LockPassed
<1>2. CASE /\ lock' = [lock EXCEPT !["states"] = Pass(@), !["modules"] = Ask(@, t, "write")]
           /\ Goes(t, "first") /\ UNCHANGED request
  <2>1. rpc'[t] = "first" /\ request' = request
    BY <1>2 DEF LockInv, CallInv, Goes
  <2>2. /\ lock'["states"].queue = Tail(lock["states"].queue)
        /\ lock'["modules"].queue = Append(lock["modules"].queue, <<t, "write">>)
        /\ \A l \in Locks : lock'[l].held = lock[l].held
    <3>1. lock'["states"] = Pass(lock["states"]) /\ lock'["modules"] = Ask(lock["modules"], t, "write")
      BY <1>0, <1>2
    <3>2. /\ Pass(lock["states"]).queue = Tail(lock["states"].queue)
          /\ Pass(lock["states"]).held = lock["states"].held
      BY <1>0, LockOperations
    <3>3. /\ Ask(lock["modules"], t, "write").queue = Append(lock["modules"].queue, <<t, "write">>)
          /\ Ask(lock["modules"], t, "write").held = lock["modules"].held
      BY <1>0, LockOperations
    <3> QED
      BY <1>0, <3>1, <3>2, <3>3
  <2>3. Wants(t, "modules", "write")'
    BY <1>a, <2>1 DEF Wants, First, FirstLock
  <2>4. QueueInv'
    BY <1>0, <1>a, <2>2, <2>3, QueueStep
  <2>5. \A l \in Locks : lock'[l].held = lock[l].held /\ (Has(t, l)' <=> Has(t, l))
    BY <1>a, <2>1, <2>2 DEF Has
  <2>6. HeldInv'
    BY <2>5, HeldStep
  <2> QED
    BY <2>4, <2>6 DEF LockInv
<1> QED
  BY <1>1, <1>2 DEF CheckUnregister

\* A writer takes its first lock and asks for the second.
LEMMA FirstEntered ==
    ASSUME LockInv, NEW t \in RegistryTasks, CallInv', OnlyMoves(t), EnterFirst(t)
    PROVE  LockInv'
<1>0. lock \in [Locks -> Lockings]
  BY DEF LockInv, CallInv
<1>1. PICK a \in Locks, b \in Locks :
         a = First(t) /\ b = Second(t) /\ a # b /\ \A l \in Locks : l = a \/ l = b
  BY TwoLocks
<1>2. rpc[t] = "first" /\ MayEnter(lock[a], t) /\ request' = request /\ rpc'[t] = "second"
  BY <1>1 DEF EnterFirst, LockInv, CallInv, Goes
<1>3. First(t)' = a /\ Second(t)' = b
  BY <1>1, <1>2 DEF First, Second
<1>4. /\ lock'[a].queue = Tail(lock[a].queue)
      /\ lock'[a].held = lock[a].held \cup {Head(lock[a].queue)}
      /\ lock'[b].queue = Append(lock[b].queue, <<t, "write">>)
      /\ lock'[b].held = lock[b].held
  <2>1. lock'[a] = Enter(lock[a]) /\ lock'[b] = Ask(lock[b], t, "write")
    BY <1>0, <1>1 DEF EnterFirst
  <2>2. /\ Enter(lock[a]).queue = Tail(lock[a].queue)
        /\ Enter(lock[a]).held = lock[a].held \cup {Head(lock[a].queue)}
    BY DEF Enter
  <2>3. /\ Ask(lock[b], t, "write").queue = Append(lock[b].queue, <<t, "write">>)
        /\ Ask(lock[b], t, "write").held = lock[b].held
    BY <1>0, LockOperations
  <2> QED
    BY <2>1, <2>2, <2>3
<1>5. Wants(t, b, "write")' /\ \A j : ~Wants(t, b, j)
  BY <1>1, <1>2, <1>3 DEF Wants
<1>6. QueueInv'
  BY <1>1, <1>2, <1>4, <1>5, QueueStep
<1>7. Has(t, a)' /\ ~Has(t, b)' /\ ~Has(t, b)
  BY <1>1, <1>2, <1>3 DEF Has
<1>8. HeldInv'
  BY <1>1, <1>2, <1>4, <1>7, HeldStep
<1> QED
  BY <1>6, <1>8 DEF LockInv

\* A writer takes its second lock.
LEMMA SecondEntered ==
    ASSUME LockInv, NEW t \in RegistryTasks, CallInv', OnlyMoves(t), EnterSecond(t)
    PROVE  LockInv'
<1>0. lock \in [Locks -> Lockings]
  BY DEF LockInv, CallInv
<1>1. PICK a \in Locks, b \in Locks :
         a = First(t) /\ b = Second(t) /\ a # b /\ \A l \in Locks : l = a \/ l = b
  BY TwoLocks
<1>2. rpc[t] = "second" /\ MayEnter(lock[b], t) /\ rpc'[t] = "both"
  BY <1>1 DEF EnterSecond, LockInv, CallInv, Goes
<1>3. /\ lock'[b].queue = Tail(lock[b].queue)
      /\ lock'[b].held = lock[b].held \cup {Head(lock[b].queue)}
      /\ lock'[a] = lock[a]
  BY <1>0, <1>1 DEF EnterSecond, Enter
<1>4. \A j : ~Wants(t, a, j)
  BY <1>1, <1>2 DEF Wants
<1>5. QueueInv'
  BY <1>1, <1>2, <1>3, <1>4, QueueStep
<1>6. Has(t, a) /\ Has(t, a)' /\ Has(t, b)'
  BY <1>1, <1>2 DEF Has
<1>7. HeldInv'
  BY <1>1, <1>2, <1>3, <1>6, HeldStep
<1> QED
  BY <1>5, <1>7 DEF LockInv

LEMMA NextLockInv == LockInv /\ [RegistryNext]_registryVars => LockInv'
<1> SUFFICES ASSUME LockInv, [RegistryNext]_registryVars
             PROVE  LockInv'
  OBVIOUS
<1>1. CASE UNCHANGED registryVars
  BY <1>1 DEF registryVars, LockInv, CallInv, QueueInv, HeldInv, Wants, Has, First, Second
<1> SUFFICES ASSUME NEW t \in RegistryTasks, RegistryCall(t) \/ RegistryStep(t)
             PROVE  LockInv'
  BY <1>1 DEF RegistryNext
<1>2. CallInv' /\ OnlyMoves(t)
  BY NextCallInv
<1>3. \A place \in RegistryPlaces : Goes(t, place) => rpc'[t] = place
  BY DEF LockInv, CallInv, Goes
<1> USE DEF RegistryPlaces
<1>4. ASSUME NEW P \in SUBSET Paths, Scan(t, P) PROVE LockInv'
  BY <1>2, <1>3, <1>4, LocksAlone DEF Scan
<1>5. ASSUME NEW p \in Paths, NextEntry(t, p) PROVE LockInv'
  <2>1. CASE UNCHANGED <<rpc, lock>>
    BY <1>2, <1>5, <2>1, LocksAlone DEF NextEntry
  <2>2. CASE Goes(t, "check") /\ Asks(t, "modules", "read")
    <3>1. request'[t].op = "register" /\ "modules" \in Locks
      BY <1>5 DEF NextEntry, LockInv, CallInv, Locks
    <3>2. Wants(t, "modules", "read")'
      BY <1>3, <2>2, <3>1 DEF Wants
    <3> QED
      BY <1>2, <1>3, <1>5, <2>2, <3>1, <3>2, LockAsked DEF NextEntry
  <2> QED
    BY <1>5, <2>1, <2>2 DEF NextEntry
<1>6. ASSUME ScanEnds(t) PROVE LockInv'
  BY <1>2, <1>3, <1>6, LocksAlone DEF ScanEnds
<1>7. ASSUME NEW i \in Ids, Unregister(t, i) PROVE LockInv'
  <2>1. request'[t].op = "unregister" /\ "states" \in Locks /\ rpc'[t] = "check"
    BY <1>3, <1>7 DEF Unregister, LockInv, CallInv, Locks
  <2>2. Wants(t, "states", "read")'
    BY <2>1 DEF Wants
  <2> QED
    BY <1>2, <1>7, <2>1, <2>2, LockAsked DEF Unregister
<1>8. ASSUME NEW i \in Ids, NEW s \in SettableStates, SetState(t, i, s) PROVE LockInv'
  <2>1. request'[t].op = "set" /\ FirstLock("set") \in Locks /\ rpc'[t] = "first"
    BY <1>3, <1>8 DEF SetState, LockInv, CallInv, Locks, FirstLock
  <2>2. Wants(t, FirstLock("set"), "write")'
    BY <2>1 DEF Wants, First
  <2> QED
    BY <1>2, <1>8, <2>1, <2>2, LockAsked DEF SetState
<1>9. ASSUME Clear(t) PROVE LockInv'
  <2>1. request'[t].op = "clear" /\ FirstLock("clear") \in Locks /\ rpc'[t] = "first"
    BY <1>3, <1>9 DEF Clear, LockInv, CallInv, Locks, FirstLock
  <2>2. Wants(t, FirstLock("clear"), "write")'
    BY <2>1 DEF Wants, First
  <2> QED
    BY <1>2, <1>9, <2>1, <2>2, LockAsked DEF Clear
<1>10. ASSUME NEW l \in Locks, Look(t, l) PROVE LockInv'
  <2>1. request'[t].arg = l /\ rpc'[t] = "look"
    BY <1>3, <1>10 DEF Look, LockInv, CallInv
  <2>2. Wants(t, l, "read")'
    BY <2>1 DEF Wants
  <2> QED
    BY <1>2, <1>10, <2>1, <2>2, LockAsked DEF Look
<1>11. ASSUME Looked(t) PROVE LockInv'
  <2>1. request[t].arg \in Locks /\ Wants(t, request[t].arg, "read")
    BY <1>11 DEF Looked, LockInv, CallInv, Wants
  <2>2. rpc'[t] = "idle"
    BY <1>3, <1>11 DEF Looked, EndCall
  <2> QED
    BY <1>2, <1>11, <2>1, <2>2, LockPassed DEF Looked
<1>12. ASSUME InsertModule(t) \/ EraseModule(t) \/ ClearModules(t) \/ WriteState(t)
       PROVE  LockInv'
  <2>1. lock' = lock /\ rpc[t] = "both" /\ rpc'[t] = "half"
    BY <1>3, <1>12 DEF InsertModule, EraseModule, ClearModules, WriteState
  <2> QED
    BY <1>2, <2>1, LocksAlone
<1>13. ASSUME InsertState(t) \/ RemoveState(t) \/ ClearStates(t) \/ SetNotFound(t) \/ WriteInfo(t)
       PROVE  LockInv'
  <2>1. Unlock(t) /\ rpc[t] \in {"both", "half"} /\ rpc'[t] \in {"idle", "entry"}
    BY <1>3, <1>13 DEF InsertState, RemoveState, ClearStates, SetNotFound, WriteInfo, EndCall
  <2> QED
    BY <1>2, <2>1, LocksReleased
<1> QED
  BY <1>2, <1>4, <1>5, <1>6, <1>7, <1>8, <1>9, <1>10, <1>11, <1>12, <1>13,
     DuplicateChecked, UnregisterChecked, FirstEntered, SecondEntered
  DEF RegistryCall, RegistryStep, Register

-------------------------------------------------------------------------------
(* The two maps *)

Agree(i) == IF modules[i] = Absent THEN states[i] = Absent ELSE states[i] = modules[i].state

\* A call between its two writes leaves no other module in disagreement.
AgreeInv ==
    /\ modules \in [Ids -> Infos \cup {Absent}]
    /\ states \in [Ids -> SettableStates \cup {"Registered", Absent}]
    /\ \A i \in Ids :
          (\A t \in RegistryTasks : rpc[t] = "half" => request[t].op # "clear" /\ request[t].id # i)
              => Agree(i)
    /\ \A t \in RegistryTasks : rpc[t] = "half" =>
          /\ request[t].op = "register" =>
                modules[request[t].id] = [path |-> request[t].arg, state |-> "Registered"]
          /\ request[t].op = "unregister" => modules[request[t].id] = Absent
          /\ request[t].op = "clear" => \A i \in Ids : modules[i] = Absent
          /\ request[t].op = "set" =>
                modules[request[t].id] # Absent /\ states[request[t].id] = request[t].arg

\* What a call saw holds until it is overtaken, and the call that is between its two writes
\* has overtaken every other for its module.
SeenInv ==
    /\ \A t \in RegistryTasks :
          rpc[t] \in {"first", "second", "both"} /\ ~overtaken[t] =>
              /\ request[t].op = "register" => modules[request[t].id] = Absent
              /\ request[t].op = "unregister" => states[request[t].id] \notin {Absent, "Running"}
    /\ \A t, u \in RegistryTasks :
          (/\ t # u /\ rpc[t] \in {"first", "second", "both"}
           /\ request[t].op \in {"register", "unregister"}
           /\ rpc[u] = "half" /\ (request[u].op = "clear" \/ request[t].id = request[u].id))
              => overtaken[t]

MapInv == LockInv /\ AgreeInv /\ SeenInv

\* Who holds both locks is alone, and nobody goes past such a call into a lock.
LEMMA WriterAlone ==
    ASSUME LockInv, NEW t \in RegistryTasks, rpc[t] \in {"both", "half"}
    PROVE  /\ \A u \in RegistryTasks \ {t} : rpc[u] \notin {"both", "half"}
           /\ \A l \in Locks : WriteHeld(lock[l]) /\ \A u : ~MayEnter(lock[l], u)
<1>1. \A l \in Locks : <<t, "write">> \in lock[l].held
  BY DEF LockInv, HeldInv, Has
<1>2. ASSUME NEW u \in RegistryTasks \ {t}, rpc[u] \in {"both", "half"} PROVE FALSE
  <2>1. "modules" \in Locks
    BY DEF Locks
  <2>2. <<u, "write">> \in lock["modules"].held
    BY <1>2, <2>1 DEF LockInv, HeldInv, Has
  <2>3. <<u, "write">> = <<t, "write">>
    BY <1>1, <2>1, <2>2 DEF LockInv, HeldInv
  <2> QED
    BY <2>3
<1>3. <<t, "write">>[2] = "write"
  OBVIOUS
<1> QED
  BY <1>1, <1>2, <1>3 DEF WriteHeld, MayEnter

LEMMA InitMapInv == RegistryInit => MapInv
<1> SUFFICES ASSUME RegistryInit PROVE AgreeInv /\ SeenInv
  BY InitLockInv DEF MapInv
<1>1. AgreeInv
  BY DEF RegistryInit, AgreeInv, Agree
<1>2. SeenInv
  BY DEF RegistryInit, SeenInv
<1> QED
  BY <1>1, <1>2

\* A step outside the two writes.
LEMMA MapsAlone ==
    ASSUME MapInv, NEW t \in RegistryTasks, OnlyMoves(t), modules' = modules, states' = states,
           rpc[t] # "half", rpc'[t] # "half"
    PROVE  AgreeInv'
<1>1. \A u \in RegistryTasks : rpc'[u] = "half" => u # t /\ rpc[u] = "half" /\ request'[u] = request[u]
  BY DEF OnlyMoves
<1>2. \A u \in RegistryTasks : rpc[u] = "half" => u # t /\ rpc'[u] = "half" /\ request'[u] = request[u]
  BY DEF OnlyMoves
<1> QED
  BY <1>1, <1>2 DEF MapInv, AgreeInv, Agree

\* A call that takes up no place between its check and its writes, or keeps it.
LEMMA SeenAlone ==
    ASSUME MapInv, NEW t \in RegistryTasks, OnlyMoves(t), modules' = modules, states' = states,
           rpc[t] # "half", rpc'[t] # "half",
           \/ rpc'[t] \notin {"first", "second", "both"}
           \/ /\ rpc[t] \in {"first", "second"} /\ request'[t] = request[t]
              /\ overtaken' = overtaken
           \/ request'[t].op \in {"set", "clear"},
           \A u \in RegistryTasks \ {t} : overtaken'[u] = overtaken[u]
    PROVE  SeenInv'
<1>1. \A u \in RegistryTasks \ {t} : rpc'[u] = rpc[u] /\ request'[u] = request[u]
  BY DEF OnlyMoves
<1> QED
  BY <1>1 DEF MapInv, SeenInv

\* The first write of a call that holds both locks.
LEMMA FirstWrite ==
    ASSUME MapInv, NEW t \in RegistryTasks, CallInv', OnlyMoves(t),
           InsertModule(t) \/ EraseModule(t) \/ ClearModules(t) \/ WriteState(t)
    PROVE  AgreeInv' /\ SeenInv'
<1>1. /\ rpc[t] = "both" /\ rpc'[t] = "half" /\ request' = request
      /\ \A u \in RegistryTasks \ {t} : rpc'[u] = rpc[u] /\ rpc[u] # "half"
  <2>1. rpc[t] = "both" /\ Goes(t, "half") /\ request' = request
    BY DEF InsertModule, EraseModule, ClearModules, WriteState
  <2> QED
    BY <2>1, WriterAlone DEF MapInv, LockInv, CallInv, Goes
<1>2. \A i \in Ids : Agree(i)
  BY <1>1 DEF MapInv, AgreeInv
<1>3. /\ modules \in [Ids -> Infos \cup {Absent}]
      /\ states \in [Ids -> SettableStates \cup {"Registered", Absent}]
      /\ request[t].op \in {"register", "unregister", "set"} => request[t].id \in Ids
      /\ request[t].op = "register" => request[t].arg \in Paths
      /\ request[t].op = "set" => request[t].arg \in SettableStates
      /\ \A u \in RegistryTasks :
            request[u].op \in {"register", "unregister"} => request[u].id \in Ids
  BY DEF MapInv, LockInv, CallInv, AgreeInv
<1>4. AgreeInv'
  <2>1. CASE InsertModule(t)
    <3>1. [path |-> request[t].arg, state |-> "Registered"] \in Infos
      BY <1>3, <2>1 DEF InsertModule, Infos
    <3> QED
      BY <1>1, <1>2, <1>3, <2>1, <3>1 DEF InsertModule, AgreeInv, Agree
  <2>2. CASE EraseModule(t)
    BY <1>1, <1>2, <1>3, <2>2 DEF EraseModule, AgreeInv, Agree
  <2>3. CASE ClearModules(t)
    BY <1>1, <1>2, <1>3, <2>3 DEF ClearModules, AgreeInv, Agree
  <2>4. CASE WriteState(t)
    BY <1>1, <1>2, <1>3, <2>4 DEF WriteState, AgreeInv, Agree
  <2> QED
    BY <2>1, <2>2, <2>3, <2>4
<1>5. SeenInv'
  <2>1. PICK I : /\ Overtakes(t, I)
                 /\ request[t].op # "clear" => I = {request[t].id}
                 /\ request[t].op = "clear" => I = Ids
                 /\ \A i \in Ids \ I : modules'[i] = modules[i] /\ states'[i] = states[i]
    <3>1. CASE InsertModule(t) \/ EraseModule(t) \/ WriteState(t)
      BY <1>3, <3>1 DEF InsertModule, EraseModule, WriteState
    <3>2. CASE ClearModules(t)
      BY <1>3, <3>2 DEF ClearModules
    <3> QED
      BY <3>1, <3>2
  <2>2. \A u \in RegistryTasks \ {t} : overtaken'[u] = (overtaken[u] \/ request[u].id \in I)
    BY <2>1 DEF Overtakes
  <2>3. \A u \in RegistryTasks \ {t} :
           (rpc'[u] \in {"first", "second", "both"} /\ ~overtaken'[u]) =>
              /\ request[u].op = "register" => modules'[request[u].id] = Absent
              /\ request[u].op = "unregister" => states'[request[u].id] \notin {Absent, "Running"}
    <3> SUFFICES ASSUME NEW u \in RegistryTasks \ {t},
                        rpc'[u] \in {"first", "second", "both"}, ~overtaken'[u],
                        request[u].op \in {"register", "unregister"}
                 PROVE  /\ request[u].op = "register" => modules'[request[u].id] = Absent
                        /\ request[u].op = "unregister" =>
                              states'[request[u].id] \notin {Absent, "Running"}
      OBVIOUS
    <3>1. ~overtaken[u] /\ request[u].id \in Ids \ I /\ rpc[u] = rpc'[u]
      BY <1>1, <1>3, <2>2
    <3> QED
      BY <2>1, <3>1 DEF MapInv, SeenInv
  <2>4. \A u \in RegistryTasks \ {t} :
           (/\ request[u].op \in {"register", "unregister"}
            /\ request[t].op = "clear" \/ request[u].id = request[t].id) => overtaken'[u]
    BY <1>3, <2>1, <2>2
  <2> QED
    BY <1>1, <2>3, <2>4 DEF SeenInv
<1> QED
  BY <1>4, <1>5

\* The second write brings the two maps together again.
LEMMA SecondWrite ==
    ASSUME MapInv, NEW t \in RegistryTasks, CallInv', OnlyMoves(t),
           InsertState(t) \/ RemoveState(t) \/ ClearStates(t) \/ WriteInfo(t)
    PROVE  AgreeInv' /\ SeenInv'
<1>1. /\ rpc[t] = "half" /\ rpc'[t] \in {"idle", "entry"}
      /\ \A u \in RegistryTasks \ {t} : rpc'[u] = rpc[u] /\ request'[u] = request[u] /\ rpc[u] # "half"
      /\ overtaken' = overtaken
  <2>1. rpc[t] = "half" /\ (Goes(t, "idle") \/ Goes(t, "entry")) /\ overtaken' = overtaken
    BY DEF InsertState, RemoveState, ClearStates, WriteInfo, EndCall
  <2> QED
    BY <2>1, WriterAlone DEF MapInv, LockInv, CallInv, Goes, OnlyMoves
<1>2. \A i \in Ids : request[t].op # "clear" /\ request[t].id # i => Agree(i)
  BY <1>1 DEF MapInv, AgreeInv
<1>3. /\ modules \in [Ids -> Infos \cup {Absent}]
      /\ states \in [Ids -> SettableStates \cup {"Registered", Absent}]
      /\ request[t].op \in {"register", "unregister", "set"} => request[t].id \in Ids
      /\ request[t].op = "register" => request[t].arg \in Paths
      /\ request[t].op = "set" => request[t].arg \in SettableStates
      /\ request[t].op = "register" =>
            modules[request[t].id] = [path |-> request[t].arg, state |-> "Registered"]
      /\ request[t].op = "unregister" => modules[request[t].id] = Absent
      /\ request[t].op = "clear" => \A i \in Ids : modules[i] = Absent
      /\ request[t].op = "set" =>
            modules[request[t].id] # Absent /\ states[request[t].id] = request[t].arg
  BY <1>1 DEF MapInv, LockInv, CallInv, AgreeInv
<1>4. /\ modules' \in [Ids -> Infos \cup {Absent}]
      /\ states' \in [Ids -> SettableStates \cup {"Registered", Absent}]
      /\ \A i \in Ids : Agree(i)'
      /\ \A i \in Ids : request[t].op # "clear" /\ i # request[t].id =>
            modules'[i] = modules[i] /\ states'[i] = states[i]
  <2>1. CASE InsertState(t)
    <3>1. [path |-> request[t].arg, state |-> "Registered"] # Absent
      BY <1>3, <2>1, RegistryAssumption DEF RegistryAssumption, InsertState, Infos
    <3> QED
      BY <1>2, <1>3, <2>1, <3>1 DEF InsertState, Agree
  <2>2. CASE RemoveState(t)
    BY <1>2, <1>3, <2>2 DEF RemoveState, Agree
  <2>3. CASE ClearStates(t)
    BY <1>2, <1>3, <2>3 DEF ClearStates, Agree
  <2>4. CASE WriteInfo(t)
    <3>1. modules[request[t].id] \in Infos /\ request[t].op = "set" /\ states' = states
      BY <1>3, <2>4 DEF WriteInfo
    <3>2. PICK info \in Infos :
             modules' = [modules EXCEPT ![request[t].id] = info] /\ info.state = request[t].arg
      <4>1. [modules[request[t].id] EXCEPT !.state = request[t].arg]
               = [path |-> modules[request[t].id].path, state |-> request[t].arg]
        BY <3>1 DEF Infos
      <4>2. [path |-> modules[request[t].id].path, state |-> request[t].arg] \in Infos
        BY <1>3, <3>1 DEF Infos
      <4>3. modules' = [modules EXCEPT ![request[t].id] =
                           [path |-> modules[request[t].id].path, state |-> request[t].arg]]
        BY <1>3, <2>4, <3>1, <4>1 DEF WriteInfo
      <4> QED
        BY <4>2, <4>3
    <3>3. info # Absent
      BY <3>2, RegistryAssumption DEF RegistryAssumption
    <3> QED
      BY <1>2, <1>3, <3>1, <3>2, <3>3 DEF Agree
  <2> QED
    BY <2>1, <2>2, <2>3, <2>4
<1>5. AgreeInv'
  BY <1>1, <1>4 DEF AgreeInv
<1>6. SeenInv'
  <2>1. \A u \in RegistryTasks \ {t} :
           (rpc'[u] \in {"first", "second", "both"} /\ ~overtaken'[u]) =>
              /\ request[u].op = "register" => modules'[request[u].id] = Absent
              /\ request[u].op = "unregister" => states'[request[u].id] \notin {Absent, "Running"}
    <3> SUFFICES ASSUME NEW u \in RegistryTasks \ {t},
                        rpc'[u] \in {"first", "second", "both"}, ~overtaken'[u],
                        request[u].op \in {"register", "unregister"}
                 PROVE  /\ request[u].op = "register" => modules'[request[u].id] = Absent
                        /\ request[u].op = "unregister" =>
                              states'[request[u].id] \notin {Absent, "Running"}
      OBVIOUS
    <3>1. ~overtaken[u] /\ rpc[u] \in {"first", "second", "both"}
      BY <1>1
    <3>2. request[t].op # "clear" /\ request[u].id # request[t].id
      BY <1>1, <3>1 DEF MapInv, SeenInv
    <3>3. request[u].id \in Ids
      BY DEF MapInv, LockInv, CallInv
    <3> QED
      BY <1>4, <3>1, <3>2, <3>3 DEF MapInv, SeenInv
  <2> QED
    BY <1>1, <2>1 DEF SeenInv
<1> QED
  BY <1>5, <1>6

\* The checks look while nobody is between two writes.
LEMMA ChecksSee ==
    ASSUME MapInv, NEW t \in RegistryTasks, CallInv', OnlyMoves(t),
           CheckDuplicate(t) \/ CheckUnregister(t)
    PROVE  AgreeInv' /\ SeenInv'
<1>1. /\ rpc[t] = "check" /\ rpc'[t] \in {"idle", "entry", "first"}
      /\ modules' = modules /\ states' = states
      /\ overtaken' = [overtaken EXCEPT ![t] = FALSE]
  BY DEF CheckDuplicate, CheckUnregister, EndCall, Goes, MapInv, LockInv, CallInv
<1>2. AgreeInv'
  BY <1>1, MapsAlone
<1>3. \A u \in RegistryTasks \ {t} :
         rpc'[u] = rpc[u] /\ request'[u] = request[u] /\ overtaken'[u] = overtaken[u]
  BY <1>1 DEF OnlyMoves, MapInv, LockInv, CallInv
<1>4. CASE rpc'[t] # "first"
  <2>1. rpc[t] # "half" /\ rpc'[t] # "half" /\ rpc'[t] \notin {"first", "second", "both"}
    BY <1>1, <1>4
  <2>2. SeenInv'
    BY <1>1, <1>3, <2>1, SeenAlone
  <2> QED
    BY <1>2, <2>2
<1>5. CASE rpc'[t] = "first"
  <2>1. \E l \in Locks : MayEnter(lock[l], t)
    BY DEF CheckDuplicate, CheckUnregister, Locks
  <2>2. \A u \in RegistryTasks : rpc[u] # "half"
    BY <2>1, WriterAlone DEF MapInv
  <2>3. /\ request' = request
        /\ request[t].op = "register" => modules[request[t].id] = Absent
        /\ request[t].op = "unregister" => states[request[t].id] \notin {Absent, "Running"}
    BY <1>5 DEF CheckDuplicate, CheckUnregister, EndCall, Goes, MayUnregister,
                MapInv, LockInv, CallInv
  <2>4. \A u \in RegistryTasks : rpc'[u] # "half"
    BY <1>3, <1>5, <2>2
  <2>5. SeenInv'
    BY <1>1, <1>3, <2>3, <2>4 DEF MapInv, SeenInv
  <2> QED
    BY <1>2, <2>5
<1> QED
  BY <1>2, <1>4, <1>5

LEMMA NextMapInv == MapInv /\ [RegistryNext]_registryVars => MapInv'
<1> SUFFICES ASSUME MapInv, [RegistryNext]_registryVars
             PROVE  AgreeInv' /\ SeenInv'
  BY NextLockInv DEF MapInv
<1>1. CASE UNCHANGED registryVars
  BY <1>1 DEF registryVars, MapInv, AgreeInv, Agree, SeenInv
<1> SUFFICES ASSUME NEW t \in RegistryTasks, RegistryCall(t) \/ RegistryStep(t)
             PROVE  AgreeInv' /\ SeenInv'
  BY <1>1 DEF RegistryNext
<1>2. CallInv' /\ OnlyMoves(t)
  BY NextCallInv DEF MapInv
<1>3. \A place \in RegistryPlaces : Goes(t, place) => rpc'[t] = place
  BY DEF MapInv, LockInv, CallInv, Goes
<1>4. ASSUME NEW r, request' = [request EXCEPT ![t] = r] PROVE request'[t] = r
  BY <1>4 DEF MapInv, LockInv, CallInv
<1> USE DEF RegistryPlaces, mapVars
<1>5. ASSUME \/ \E P \in SUBSET Paths : Scan(t, P)
             \/ \E p \in Paths : NextEntry(t, p)
             \/ ScanEnds(t)
             \/ \E i \in Ids : Unregister(t, i)
             \/ \E l \in Locks : Look(t, l)
             \/ Looked(t)
             \/ SetNotFound(t)
      PROVE  AgreeInv' /\ SeenInv'
  <2>1. /\ UNCHANGED <<modules, states, overtaken>> /\ rpc[t] # "half"
        /\ rpc'[t] \in {"idle", "entry", "check", "look"}
    BY <1>3, <1>5 DEF Scan, NextEntry, ScanEnds, Unregister, Look, Looked, SetNotFound, EndCall
  <2> QED
    BY <1>2, <2>1, MapsAlone, SeenAlone
<1>6. ASSUME (\E i \in Ids, s \in SettableStates : SetState(t, i, s)) \/ Clear(t)
      PROVE  AgreeInv' /\ SeenInv'
  <2>1. /\ UNCHANGED <<modules, states, overtaken>> /\ rpc[t] # "half" /\ rpc'[t] = "first"
        /\ request'[t].op \in {"set", "clear"}
    <3>1. CASE Clear(t)
      <4>1. request'[t] = [op |-> "clear", id |-> Absent, arg |-> Absent]
        BY <1>4, <3>1 DEF Clear
      <4> QED
        BY <1>3, <3>1, <4>1 DEF Clear
    <3>2. ASSUME NEW i \in Ids, NEW s \in SettableStates, SetState(t, i, s)
          PROVE  /\ UNCHANGED <<modules, states, overtaken>> /\ rpc[t] # "half"
                 /\ rpc'[t] = "first" /\ request'[t].op = "set"
      <4>1. request'[t] = [op |-> "set", id |-> i, arg |-> s]
        BY <1>4, <3>2 DEF SetState
      <4> QED
        BY <1>3, <3>2, <4>1 DEF SetState
    <3> QED
      BY <1>6, <3>1, <3>2
  <2> QED
    BY <1>2, <2>1, MapsAlone, SeenAlone
<1>7. ASSUME EnterFirst(t) \/ EnterSecond(t) PROVE AgreeInv' /\ SeenInv'
  <2>1. /\ UNCHANGED <<modules, states, overtaken, request>>
        /\ rpc[t] \in {"first", "second"} /\ rpc'[t] # "half"
    BY <1>3, <1>7 DEF EnterFirst, EnterSecond
  <2> QED
    BY <1>2, <2>1, MapsAlone, SeenAlone
<1> QED
  BY <1>2, <1>5, <1>6, <1>7, ChecksSee, FirstWrite, SecondWrite
  DEF RegistryCall, RegistryStep, Register

LEMMA MapInvImplies == MapInv => RegistryHolds
<1> SUFFICES ASSUME MapInv PROVE RegistryHolds
  OBVIOUS
<1>1. ASSUME NEW l \in Locks, NEW h \in lock[l].held
      PROVE  h[2] = "write" /\ rpc[h[1]] \in {"second", "both", "half"}
  <2>1. h \in RegistryTasks \X {"write"}
    BY DEF MapInv, LockInv, CallInv, Lockings
  <2>2. h[1] \in RegistryTasks /\ h[2] = "write" /\ h = <<h[1], "write">>
    BY <2>1
  <2>3. Has(h[1], l)
    BY <2>2 DEF MapInv, LockInv, HeldInv
  <2> QED
    BY <2>2, <2>3 DEF Has
<1>2. RegistryTypeOK
  BY <1>1 DEF RegistryTypeOK, MapInv, LockInv, CallInv, AgreeInv
<1>3. MapsAgree
  <2> SUFFICES ASSUME NEW l \in Locks, ~WriteHeld(lock[l]), NEW i \in Ids
               PROVE  Agree(i)
    BY DEF MapsAgree, Agree
  <2>1. \A t \in RegistryTasks : rpc[t] # "half"
    BY WriterAlone DEF MapInv
  <2> QED
    BY <2>1 DEF MapInv, AgreeInv
<1> QED
  BY <1>2, <1>3 DEF RegistryHolds

\* However registrations, scans, removals, changes of state and clear() interleave, and in
\* whichever order each takes the two locks, the two maps hold the same modules in the same
\* states unless one call holds both locks.
THEOREM RegistryAlwaysHolds == RegistrySpec => []RegistryHolds
<1>1. RegistryInit => MapInv
  BY InitMapInv
<1>2. MapInv /\ [RegistryNext]_registryVars => MapInv'
  BY NextMapInv
<1>3. MapInv => RegistryHolds
  BY MapInvImplies
<1> QED
  BY <1>1, <1>2, <1>3, PTL DEF RegistrySpec

\* What register() and unregister() saw before they gave the lock back holds when they
\* write, unless another call for that module wrote in between.
THEOREM ChecksAlwaysHold == RegistrySpec => ChecksHoldUnlessOvertaken
<1>1. RegistryInit => MapInv
  BY InitMapInv
<1>2. MapInv /\ [RegistryNext]_registryVars => MapInv'
  BY NextMapInv
<1>3. MapInv /\ [RegistryNext]_registryVars =>
         [\A t \in RegistryTasks :
             (rpc[t] = "both" /\ rpc'[t] = "half" /\ ~overtaken[t]) =>
                 /\ request[t].op = "register" => modules[request[t].id] = Absent
                 /\ request[t].op = "unregister" => states[request[t].id] \notin {Absent, "Running"}
         ]_registryVars
  BY DEF MapInv, SeenInv
<1> QED
  BY <1>1, <1>2, <1>3, PTL DEF RegistrySpec, ChecksHoldUnlessOvertaken

-------------------------------------------------------------------------------
(* LifecycleManager: calls and their lock *)

TicketKinds == {"read", "write", "all"}
CallerTickets == Callers \X TicketKinds
StatesLockings == [held : SUBSET (Callers \X {"all"}), queue : Seq(CallerTickets)]

\* What a call brings with it to a place.
Fits(place, j) ==
    /\ place = "idle" => j.op = "none"
    /\ place \in {"all", "next"} => j.op = "checkAll"
    /\ place \in {"probe", "ask", "cache"} => j.op \in {"check", "checkAll"}
    /\ place = "exists" => j.op = "restart"
    /\ place \in {"look", "begin", "hook", "finish"} => j.op \in {"start", "stop", "restart"}
    /\ place = "put" => j.op = "put" /\ j.arg \in LifecycleStates
    /\ place = "cache" => j.arg \in Verdicts
    /\ place \notin {"idle", "all", "next"} => j.name \in Names

JobInv ==
    /\ statesLock \in StatesLockings
    /\ status \in [Names -> LifecycleStates \cup {"absent"}]
    /\ health \in [Names -> Verdicts \cup {"none"}]
    /\ lpc \in [Callers -> LifecyclePlaces]
    /\ job \in [Callers -> Jobs]
    /\ unchecked \in [Callers -> SUBSET Names]
    /\ report \in [Callers -> [Names -> Verdicts \cup {"none"}]]
    /\ disturbed \in [Callers -> BOOLEAN]
    /\ \A t \in Callers : Fits(lpc[t], job[t])

\* How a call waits for the lock.
Awaits(t, kind) ==
    \/ lpc[t] \in {"exists", "look", "probe"} /\ kind = "read"
    \/ lpc[t] \in {"begin", "finish", "put"} /\ kind = "write"
    \/ lpc[t] = "all" /\ kind = "all"

\* The calls of health_check_all that are in the lock.
Inside(t) == job[t].op = "checkAll" /\ lpc[t] # "all"

LineInv ==
    /\ Lone(statesLock.queue)
    /\ \A y \in Tickets(statesLock.queue) : Awaits(y[1], y[2])

InsideInv == \A t \in Callers : <<t, "all">> \in statesLock.held <=> Inside(t)

\* A module that health_check_all has still to check is known, and stays so.
PresentInv ==
    \A t \in Callers :
        /\ \A n \in unchecked[t] : status[n] # "absent"
        /\ Inside(t) /\ lpc[t] = "probe" => status[job[t].name] # "absent"

\* What a call that is inside has seen is so.
ReportInv ==
    /\ \A t \in Callers, n \in Names : report[t][n] # "none" => Inside(t)
    /\ \A t \in Callers : Inside(t) =>
          /\ lpc[t] = "ask" => status[job[t].name] = "Running"
          /\ lpc[t] = "cache" => /\ status[job[t].name] # "absent"
                                 /\ status[job[t].name] # "Running" => job[t].arg = Judged(status[job[t].name])
    /\ ReportIsOneState

\* What an undisturbed call has seen, or done, is so.
LookInv ==
    \A t \in Callers : ~disturbed[t] =>
        /\ lpc[t] = "begin" => Allowed(t)
        /\ lpc[t] \in {"hook", "finish"} => status[job[t].name] = Transient(t)

LifecycleInv == JobInv /\ LineInv /\ InsideInv /\ PresentInv /\ ReportInv /\ LookInv

OthersStay(t) == \A u \in Callers \ {t} : lpc'[u] = lpc[u] /\ job'[u] = job[u]

LEMMA InitLifecycleInv == LifecycleInit => LifecycleInv
<1> SUFFICES ASSUME LifecycleInit PROVE LifecycleInv
  OBVIOUS
<1>1. JobInv
  <2>1. Unlocked \in StatesLockings
    BY DEF Unlocked, StatesLockings
  <2>2. NoJob \in Jobs /\ NoJob.op = "none"
    BY DEF NoJob, Jobs
  <2> QED
    BY <2>1, <2>2 DEF LifecycleInit, JobInv, Fits, LifecyclePlaces, EmptyReport
<1>2. LineInv
  <2>1. Tickets(<<>>) = {} /\ Lone(<<>>)
    BY DEF Tickets, Lone
  <2> QED
    BY <2>1 DEF LifecycleInit, LineInv, Unlocked
<1>3. \A t \in Callers : ~Inside(t)
  BY DEF LifecycleInit, Inside, NoJob
<1>4. InsideInv
  BY <1>3 DEF LifecycleInit, InsideInv, Unlocked
<1>5. ReportInv
  <2>1. \A t \in Callers, n \in Names : report[t][n] = "none"
    BY DEF LifecycleInit, EmptyReport
  <2> QED
    BY <1>3, <2>1 DEF ReportInv, ReportIsOneState
<1>6. LookInv
  BY DEF LifecycleInit, LookInv
<1>7. PresentInv
  BY DEF LifecycleInit, PresentInv
<1> QED
  BY <1>1, <1>2, <1>4, <1>5, <1>6, <1>7 DEF LifecycleInv

\* The operations of the lock, field by field.
LEMMA StatesLockOperations ==
    ASSUME NEW v \in StatesLockings, NEW t \in Callers, NEW k \in TicketKinds
    PROVE  /\ Ask(v, t, k) \in StatesLockings
           /\ Ask(v, t, k).queue = Append(v.queue, <<t, k>>) /\ Ask(v, t, k).held = v.held
           /\ v.queue # <<>> => Pass(v) \in StatesLockings
           /\ Pass(v).queue = Tail(v.queue) /\ Pass(v).held = v.held
           /\ (v.queue # <<>> /\ Head(v.queue) = <<t, "all">>) => Enter(v) \in StatesLockings
           /\ Enter(v).queue = Tail(v.queue) /\ Enter(v).held = v.held \cup {Head(v.queue)}
           /\ Leave(v, t, "all") \in StatesLockings
           /\ Leave(v, t, "all").queue = v.queue
           /\ Leave(v, t, "all").held = v.held \ {<<t, "all">>}
<1>1. v.queue \in Seq(CallerTickets) /\ v.held \in SUBSET (Callers \X {"all"})
  BY DEF StatesLockings
<1>2. PICK h, q : v = [held |-> h, queue |-> q]
  BY DEF StatesLockings
<1>3. Append(v.queue, <<t, k>>) \in Seq(CallerTickets)
  BY <1>1 DEF CallerTickets
<1>4. v.queue # <<>> => Tail(v.queue) \in Seq(CallerTickets)
  BY <1>1
<1>10. \A x : [v EXCEPT !.queue = x] = [held |-> v.held, queue |-> x]
  BY <1>2
<1>5. Ask(v, t, k) = [held |-> v.held, queue |-> Append(v.queue, <<t, k>>)]
  BY <1>10, Zenon DEF Ask
<1>6. Pass(v) = [held |-> v.held, queue |-> Tail(v.queue)]
  BY <1>10, Zenon DEF Pass
<1>7. Leave(v, t, "all") = [held |-> v.held \ {<<t, "all">>}, queue |-> v.queue]
  BY <1>2 DEF Leave
<1>8. Enter(v) = [held |-> v.held \cup {Head(v.queue)}, queue |-> Tail(v.queue)]
  BY DEF Enter
<1>9. <<t, "all">> \in Callers \X {"all"}
  OBVIOUS
<1>11. \A g \in SUBSET (Callers \X {"all"}), r \in Seq(CallerTickets) :
          [held |-> g, queue |-> r] \in StatesLockings
  BY DEF StatesLockings
<1>12. v.held \ {<<t, "all">>} \in SUBSET (Callers \X {"all"})
       /\ v.held \cup {<<t, "all">>} \in SUBSET (Callers \X {"all"})
  BY <1>1, <1>9
<1>13. Ask(v, t, k) \in StatesLockings /\ Leave(v, t, "all") \in StatesLockings
  BY <1>1, <1>3, <1>5, <1>7, <1>11, <1>12
<1>14. v.queue # <<>> => Pass(v) \in StatesLockings
  BY <1>1, <1>4, <1>6, <1>11
<1>15. (v.queue # <<>> /\ Head(v.queue) = <<t, "all">>) => Enter(v) \in StatesLockings
  BY <1>4, <1>8, <1>11, <1>12
<1> QED
  BY <1>5, <1>6, <1>7, <1>8, <1>13, <1>14, <1>15

\* What a step of one call may do to the queue.
LEMMA LineStep ==
    ASSUME JobInv, LineInv, NEW t \in Callers, OthersStay(t),
           \/ statesLock'.queue = statesLock.queue /\ \A k : ~Awaits(t, k)
           \/ \E k \in TicketKinds :
                 /\ statesLock'.queue = Append(statesLock.queue, <<t, k>>)
                 /\ Awaits(t, k)' /\ \A j : ~Awaits(t, j)
           \/ MayEnter(statesLock, t) /\ statesLock'.queue = Tail(statesLock.queue)
           \/ \E k \in TicketKinds :
                 /\ MayEnter(statesLock, t)
                 /\ statesLock'.queue = Append(Tail(statesLock.queue), <<t, k>>)
                 /\ Awaits(t, k)'
    PROVE  LineInv'
<1> DEFINE q == statesLock.queue
<1>0. ASSUME Lone(statesLock'.queue), \A y \in Tickets(statesLock'.queue) : Awaits(y[1], y[2])'
      PROVE  LineInv'
  BY <1>0 DEF LineInv, Tickets, Lone
<1>1. q \in Seq(CallerTickets) /\ Lone(q) /\ \A y \in Tickets(q) : Awaits(y[1], y[2])
  BY DEF JobInv, LineInv, StatesLockings
<1>2. \A y \in Tickets(q) : y \in CallerTickets /\ y[1] \in Callers
  BY <1>1 DEF Tickets, CallerTickets
<1>3. \A u \in Callers \ {t} : \A k : Awaits(u, k) => Awaits(u, k)'
  BY DEF OthersStay, Awaits
<1>4. ASSUME \A k : ~Awaits(t, k)
      PROVE  \A y \in Tickets(q) : y[1] # t /\ Awaits(y[1], y[2])'
  BY <1>1, <1>2, <1>3, <1>4
<1>5. ASSUME MayEnter(statesLock, t)
      PROVE  /\ Tail(q) \in Seq(CallerTickets) /\ Lone(Tail(q))
             /\ \A y \in Tickets(Tail(q)) : y[1] # t /\ Awaits(y[1], y[2])'
  <2>1. q # <<>> /\ Head(q)[1] = t
    BY <1>5 DEF MayEnter
  <2>2. Tail(q) \in Seq(CallerTickets) /\ Lone(Tail(q))
        /\ Tickets(Tail(q)) = {y \in Tickets(q) : y[1] # Head(q)[1]}
    BY <1>1, <2>1, PassQueue
  <2> QED
    BY <2>1, <2>2, <1>1, <1>2, <1>3
<1>6. CASE statesLock'.queue = q /\ \A k : ~Awaits(t, k)
  BY <1>6, <1>4, <1>1, <1>0
<1>7. ASSUME NEW r \in Seq(CallerTickets), Lone(r), NEW k \in TicketKinds,
             statesLock'.queue = Append(r, <<t, k>>), Awaits(t, k)',
             \A y \in Tickets(r) : y[1] # t /\ Awaits(y[1], y[2])'
      PROVE  LineInv'
  <2>1. <<t, k>> \in CallerTickets /\ <<t, k>>[1] = t /\ <<t, k>>[2] = k
    BY DEF CallerTickets
  <2>2. Tickets(Append(r, <<t, k>>)) = Tickets(r) \cup {<<t, k>>} /\ Lone(Append(r, <<t, k>>))
    BY <1>7, <2>1, AskQueue
  <2> QED
    BY <1>7, <2>1, <2>2, <1>0
<1>8. CASE \E k \in TicketKinds :
              /\ statesLock'.queue = Append(q, <<t, k>>)
              /\ Awaits(t, k)' /\ \A j : ~Awaits(t, j)
  BY <1>8, <1>4, <1>1, <1>7
<1>9. CASE MayEnter(statesLock, t) /\ statesLock'.queue = Tail(q)
  BY <1>9, <1>5, <1>0
<1>10. CASE \E k \in TicketKinds :
              /\ MayEnter(statesLock, t)
              /\ statesLock'.queue = Append(Tail(q), <<t, k>>)
              /\ Awaits(t, k)'
  BY <1>10, <1>5, <1>7
<1> QED
  BY <1>6, <1>8, <1>9, <1>10

\* Whoever may enter has the ticket that its place asks for; a writer finds the
\* lock empty, hence no health_check_all inside.
LEMMA TicketTold ==
    ASSUME JobInv, LineInv, InsideInv, NEW t \in Callers, MayEnter(statesLock, t)
    PROVE  /\ \E k \in TicketKinds : Head(statesLock.queue) = <<t, k>> /\ Awaits(t, k)
           /\ lpc[t] \in {"begin", "finish", "put"} => \A u \in Callers : ~Inside(u)
<1> DEFINE q == statesLock.queue
<1>1. q \in Seq(CallerTickets) /\ Lone(q) /\ q # <<>> /\ Head(q)[1] = t
  BY DEF JobInv, LineInv, StatesLockings, MayEnter
<1>2. Head(q) \in Tickets(q)
  BY <1>1, PassQueue
<1>3. Head(q) \in CallerTickets /\ Awaits(t, Head(q)[2])
  BY <1>1, <1>2 DEF Tickets, LineInv
<1>4. \E k \in TicketKinds : Head(q) = <<t, k>> /\ Awaits(t, k)
  BY <1>1, <1>3 DEF CallerTickets
<1>5. lpc[t] \in {"begin", "finish", "put"} => Head(q)[2] = "write"
  BY <1>3 DEF Awaits
<1>6. lpc[t] \in {"begin", "finish", "put"} => statesLock.held = {}
  BY <1>5 DEF MayEnter
<1> QED
  BY <1>4, <1>6 DEF InsideInv


-------------------------------------------------------------------------------
(* The steps of a call.                                                    *)

LEMMA NextJobInv ==
    ASSUME LifecycleInv, NEW t \in Callers, LifecycleCall(t) \/ LifecycleStep(t)
    PROVE  JobInv' /\ OthersStay(t)
<1> USE DEF At, Job, Over, PassAndAsk, JustPass, checkVars, OthersStay, LifecyclePlaces
<1>0. JobInv /\ LineInv /\ InsideInv
  BY DEF LifecycleInv
<1>1. NoJob \in Jobs /\ Fits("idle", NoJob)
  BY DEF NoJob, Jobs, Fits
<1>20. ASSUME OthersStay(t), statesLock' \in StatesLockings,
              status' \in [Names -> LifecycleStates \cup {"absent"}],
              health' \in [Names -> Verdicts \cup {"none"}],
              unchecked' \in [Callers -> SUBSET Names],
              report' \in [Callers -> [Names -> Verdicts \cup {"none"}]],
              disturbed' \in [Callers -> BOOLEAN],
              lpc' \in [Callers -> LifecyclePlaces], job' \in [Callers -> Jobs],
              Fits(lpc'[t], job'[t])
       PROVE  JobInv'
  <2>1. \A u \in Callers : Fits(lpc'[u], job'[u])
    BY <1>0, <1>20 DEF JobInv
  <2> QED
    BY <1>20, <2>1 DEF JobInv, Fits
<1>2. statesLock \in StatesLockings
  BY <1>0 DEF JobInv
<1>3. /\ \A k \in TicketKinds : Ask(statesLock, t, k) \in StatesLockings
      /\ Leave(statesLock, t, "all") \in StatesLockings
      /\ "read" \in TicketKinds /\ "write" \in TicketKinds /\ "all" \in TicketKinds
  BY <1>2, StatesLockOperations DEF TicketKinds
<1>4. ASSUME MayEnter(statesLock, t)
      PROVE  /\ Pass(statesLock) \in StatesLockings
             /\ \A k \in TicketKinds : Ask(Pass(statesLock), t, k) \in StatesLockings
             /\ lpc[t] = "all" => Enter(statesLock) \in StatesLockings
  <2>1. Pass(statesLock) \in StatesLockings
    BY <1>2, <1>3, <1>4, StatesLockOperations DEF MayEnter
  <2>2. \A k \in TicketKinds : Ask(Pass(statesLock), t, k) \in StatesLockings
    BY <2>1, StatesLockOperations
  <2>3. ASSUME lpc[t] = "all"
        PROVE  Enter(statesLock) \in StatesLockings
    <3>1. Head(statesLock.queue) = <<t, "all">>
      BY <1>0, <1>4, <2>3, TicketTold DEF Awaits
    <3> QED
      BY <1>2, <1>3, <1>4, <3>1, StatesLockOperations DEF MayEnter
  <2> QED
    BY <2>1, <2>2, <2>3
<1>5. ASSUME NEW op \in {"start", "stop", "restart", "put", "check", "checkAll"},
             NEW n \in Names \cup {"none"}, NEW arg \in LifecycleStates \cup {"none"},
             NEW place \in {"look", "exists", "put", "probe", "all"}, NEW kind \in TicketKinds,
             Begin(t, op, n, arg, place, kind),
             place = "look" => op \in {"start", "stop"},
             place = "exists" => op = "restart",
             place = "put" => op = "put" /\ arg \in LifecycleStates,
             place = "probe" => op = "check",
             place = "all" <=> op = "checkAll",
             place # "all" => n \in Names
      PROVE  JobInv' /\ OthersStay(t)
  <2>1. [op |-> op, name |-> n, arg |-> arg] \in Jobs
    BY DEF Jobs
  <2>2. statesLock' \in StatesLockings
    BY <1>3, <1>5 DEF Begin
  <2> QED
    BY <1>0, <1>5, <2>1, <2>2 DEF Begin, JobInv, Fits
<1>6. ASSUME LifecycleCall(t) PROVE JobInv' /\ OthersStay(t)
  <2>1. "Registered" \in LifecycleStates
    BY DEF LifecycleStates
  <2>2. ASSUME NEW n \in Names, NEW s \in LifecycleStates, PutState(t, n, s)
        PROVE  JobInv' /\ OthersStay(t)
    BY <1>3, <1>5, <2>2 DEF PutState
  <2>3. ASSUME NEW n \in Names,
               StartModule(t, n) \/ StopModule(t, n) \/ RestartModule(t, n) \/ HealthCheck(t, n)
        PROVE  JobInv' /\ OthersStay(t)
    BY <1>3, <1>5, <2>3 DEF StartModule, StopModule, RestartModule, HealthCheck
  <2>4. ASSUME HealthCheckAll(t)
        PROVE  JobInv' /\ OthersStay(t)
    BY <1>3, <1>5, <2>4 DEF HealthCheckAll
  <2> QED
    BY <1>6, <2>1, <2>2, <2>3, <2>4, LifecycleAssumption
       DEF LifecycleAssumption, LifecycleCall, RegisterModule
<1>7. ASSUME Exists(t) PROVE JobInv' /\ OthersStay(t)
  <2>1. \A s \in {"stop", "start"} : [op |-> "restart", name |-> job[t].name, arg |-> s] \in Jobs
    BY <1>0 DEF JobInv, Jobs
  <2>2. statesLock' \in StatesLockings
    BY <1>3, <1>4, <1>7 DEF Exists
  <2>3. job[t].name \in Names
    BY <1>0, <1>7 DEF Exists, JobInv, Fits
  <2>4. lpc' \in [Callers -> LifecyclePlaces] /\ job' \in [Callers -> Jobs] /\ OthersStay(t)
    BY <1>0, <1>1, <1>7, <2>1 DEF Exists, JobInv
  <2>5. Fits(lpc'[t], job'[t])
    <3>1. CASE status[job[t].name] = "absent"
      BY <1>0, <1>1, <1>7, <3>1 DEF Exists, JobInv
    <3>2. CASE status[job[t].name] # "absent"
      BY <1>0, <1>7, <2>3, <3>2 DEF Exists, JobInv, Fits
    <3> QED
      BY <3>1, <3>2
  <2> QED
    BY <1>0, <1>7, <1>20, <2>2, <2>4, <2>5 DEF Exists, JobInv
<1>8. ASSUME LookUp(t) PROVE JobInv' /\ OthersStay(t)
  <2>1. [op |-> "restart", name |-> job[t].name, arg |-> "start"] \in Jobs
    BY <1>0 DEF JobInv, Jobs
  <2>2. statesLock' \in StatesLockings
    BY <1>3, <1>4, <1>8 DEF LookUp
  <2>3. job[t].name \in Names /\ job[t].op \in {"start", "stop", "restart"}
    BY <1>0, <1>8 DEF LookUp, JobInv, Fits
  <2>4. lpc' \in [Callers -> LifecyclePlaces] /\ job' \in [Callers -> Jobs] /\ OthersStay(t)
    BY <1>0, <1>1, <1>8, <2>1 DEF LookUp, JobInv
  <2>5. Fits(lpc'[t], job'[t])
    <3>1. CASE lpc'[t] = "idle" /\ job'[t] = NoJob
      BY <1>1, <3>1
    <3>2. CASE lpc'[t] = "begin" /\ job'[t] = job[t]
      BY <2>3, <3>2 DEF Fits
    <3>3. CASE lpc'[t] = "look" /\ job'[t] = [op |-> "restart", name |-> job[t].name, arg |-> "start"]
      BY <2>3, <3>3 DEF Fits
    <3> QED
      BY <1>0, <1>8, <3>1, <3>2, <3>3 DEF LookUp, JobInv
  <2> QED
    BY <1>0, <1>8, <1>20, <2>2, <2>4, <2>5 DEF LookUp, JobInv
<1>9. ASSUME NEW s \in LifecycleStates, Writes(t, s), lpc[t] \in {"begin", "finish", "put"}
      PROVE  /\ status' \in [Names -> LifecycleStates \cup {"absent"}]
             /\ disturbed' \in [Callers -> BOOLEAN]
             /\ MayEnter(statesLock, t)
  <2>1. job[t].name \in Names
    BY <1>0, <1>9 DEF JobInv, Fits
  <2> QED
    BY <1>0, <1>9, <2>1 DEF Writes, JobInv, Fits
<1>10. ASSUME EnterTransient(t) PROVE JobInv' /\ OthersStay(t)
  <2>1. Transient(t) \in LifecycleStates
    BY DEF Transient, LifecycleStates
  <2>2. statesLock' \in StatesLockings
    BY <1>4, <1>9, <1>10, <2>1 DEF EnterTransient
  <2>3. status' \in [Names -> LifecycleStates \cup {"absent"}] /\ disturbed' \in [Callers -> BOOLEAN]
    BY <1>9, <1>10, <2>1 DEF EnterTransient
  <2> QED
    BY <1>0, <1>10, <2>2, <2>3 DEF EnterTransient, JobInv, Fits
<1>11. ASSUME CallHook(t) PROVE JobInv' /\ OthersStay(t)
  BY <1>0, <1>3, <1>11 DEF CallHook, JobInv, Fits
<1>12. ASSUME EnterFinal(t) PROVE JobInv' /\ OthersStay(t)
  <2>1. Final(t) \in LifecycleStates
    BY DEF Final, LifecycleStates
  <2>2. statesLock' \in StatesLockings
    BY <1>3, <1>4, <1>9, <1>12, <2>1 DEF EnterFinal
  <2>3. status' \in [Names -> LifecycleStates \cup {"absent"}] /\ disturbed' \in [Callers -> BOOLEAN]
    BY <1>9, <1>12, <2>1 DEF EnterFinal
  <2>4. [op |-> "restart", name |-> job[t].name, arg |-> "start"] \in Jobs /\ job[t].name \in Names
    BY <1>0, <1>12 DEF EnterFinal, JobInv, Jobs, Fits
  <2>5. lpc' \in [Callers -> LifecyclePlaces] /\ job' \in [Callers -> Jobs] /\ OthersStay(t)
    BY <1>0, <1>1, <1>12, <2>4 DEF EnterFinal, JobInv
  <2>6. Fits(lpc'[t], job'[t])
    <3>1. CASE lpc'[t] = "idle" /\ job'[t] = NoJob
      BY <1>1, <3>1
    <3>2. CASE lpc'[t] = "look" /\ job'[t] = [op |-> "restart", name |-> job[t].name, arg |-> "start"]
      BY <2>4, <3>2 DEF Fits
    <3> QED
      BY <1>0, <1>12, <3>1, <3>2 DEF EnterFinal, JobInv
  <2> QED
    BY <1>0, <1>12, <1>20, <2>2, <2>3, <2>5, <2>6 DEF EnterFinal, JobInv
<1>13. ASSUME Put(t) PROVE JobInv' /\ OthersStay(t)
  <2>1. job[t].arg \in LifecycleStates /\ lpc[t] = "put"
    BY <1>0, <1>13 DEF Put, JobInv, Fits
  <2>2. statesLock' \in StatesLockings
    BY <1>4, <1>9, <1>13, <2>1 DEF Put
  <2>3. status' \in [Names -> LifecycleStates \cup {"absent"}] /\ disturbed' \in [Callers -> BOOLEAN]
    BY <1>9, <1>13, <2>1 DEF Put
  <2> QED
    BY <1>0, <1>1, <1>13, <2>2, <2>3 DEF Put, JobInv, Fits
<1>14. ASSUME EnterAll(t) PROVE JobInv' /\ OthersStay(t)
  <2>1. {n \in Names : status[n] # "absent"} \in SUBSET Names
    OBVIOUS
  <2> QED
    BY <1>0, <1>4, <1>14, <2>1 DEF EnterAll, JobInv, Fits
<1>15. ASSUME AllChecked(t) PROVE JobInv' /\ OthersStay(t)
  BY <1>0, <1>1, <1>3, <1>15 DEF AllChecked, JobInv, EmptyReport
<1>16. ASSUME Probe(t) PROVE JobInv' /\ OthersStay(t)
  <2> DEFINE v == Judged(status[job[t].name])
  <2>2. v \in Verdicts
    BY DEF Judged, Verdicts
  <2>7. /\ lpc[t] = "probe" /\ MayEnter(statesLock, t)
        /\ \/ lpc' = [lpc EXCEPT ![t] = "idle"] /\ job' = [job EXCEPT ![t] = NoJob]
           \/ lpc' = [lpc EXCEPT ![t] = "ask"] /\ job' = job
           \/ /\ lpc' = [lpc EXCEPT ![t] = "cache"]
              /\ job' = [job EXCEPT ![t] = [op |-> job[t].op, name |-> job[t].name, arg |-> v]]
    BY <1>16 DEF Probe
  <2> HIDE DEF v
  <2>1. [op |-> job[t].op, name |-> job[t].name, arg |-> v] \in Jobs
    BY <1>0, <2>2 DEF JobInv, Jobs
  <2>3. job[t].name \in Names /\ job[t].op \in {"check", "checkAll"}
    BY <1>0, <1>16 DEF Probe, JobInv, Fits
  <2>4. lpc' \in [Callers -> LifecyclePlaces] /\ job' \in [Callers -> Jobs] /\ OthersStay(t)
    BY <1>0, <1>1, <2>1, <2>7 DEF JobInv
  <2>5. Fits(lpc'[t], job'[t])
    <3>1. CASE lpc'[t] = "idle" /\ job'[t] = NoJob
      BY <1>1, <3>1
    <3>2. CASE lpc'[t] = "ask" /\ job'[t] = job[t]
      BY <2>3, <3>2 DEF Fits
    <3>3. CASE /\ lpc'[t] = "cache"
               /\ job'[t] = [op |-> job[t].op, name |-> job[t].name, arg |-> v]
      BY <2>2, <2>3, <3>3 DEF Fits
    <3> QED
      BY <1>0, <2>7, <3>1, <3>2, <3>3 DEF JobInv
  <2>6. statesLock' \in StatesLockings
    BY <1>4, <1>16 DEF Probe
  <2> QED
    BY <1>0, <1>16, <1>20, <2>4, <2>5, <2>6 DEF Probe, JobInv
<1>17. ASSUME CacheVerdict(t) PROVE JobInv' /\ OthersStay(t)
  <2>1. [op |-> "checkAll", name |-> "none", arg |-> "none"] \in Jobs
    BY DEF Jobs
  <2>2. job[t].name \in Names /\ job[t].arg \in Verdicts
    BY <1>0, <1>17 DEF CacheVerdict, JobInv, Fits
  <2>3. lpc' \in [Callers -> LifecyclePlaces] /\ job' \in [Callers -> Jobs] /\ OthersStay(t)
    BY <1>0, <1>1, <1>17, <2>1 DEF CacheVerdict, JobInv
  <2>4. Fits(lpc'[t], job'[t])
    <3>1. CASE lpc'[t] = "idle" /\ job'[t] = NoJob
      BY <1>1, <3>1
    <3>2. CASE lpc'[t] = "next" /\ job'[t] = [op |-> "checkAll", name |-> "none", arg |-> "none"]
      BY <3>2 DEF Fits
    <3> QED
      BY <1>0, <1>17, <3>1, <3>2 DEF CacheVerdict, JobInv
  <2>5. health' \in [Names -> Verdicts \cup {"none"}]
    BY <1>0, <1>17, <2>2 DEF CacheVerdict, JobInv
  <2>6. report' \in [Callers -> [Names -> Verdicts \cup {"none"}]]
    <3> DEFINE v == job[t].arg
               n == job[t].name
    <3>1. report' = report \/ report' = [report EXCEPT ![t][n] = v]
      BY <1>17 DEF CacheVerdict
    <3>2. report \in [Callers -> [Names -> Verdicts \cup {"none"}]] /\ v \in Verdicts
      BY <1>0, <2>2 DEF JobInv
    <3> HIDE DEF v, n
    <3> QED
      BY <3>1, <3>2
  <2> QED
    BY <1>0, <1>17, <1>20, <2>3, <2>4, <2>5, <2>6 DEF CacheVerdict, JobInv
<1>18. ASSUME NEW n \in Names, CheckNext(t, n) PROVE JobInv' /\ OthersStay(t)
  <2>1. [op |-> "checkAll", name |-> n, arg |-> "none"] \in Jobs
    BY DEF Jobs
  <2> QED
    BY <1>0, <1>3, <1>18, <2>1 DEF CheckNext, JobInv, Fits
<1>19. ASSUME NEW v \in Verdicts, AskModule(t, v) PROVE JobInv' /\ OthersStay(t)
  <2>1. [op |-> job[t].op, name |-> job[t].name, arg |-> v] \in Jobs
    BY <1>0 DEF JobInv, Jobs
  <2>2. job[t].name \in Names /\ job[t].op \in {"check", "checkAll"}
    BY <1>0, <1>19 DEF AskModule, JobInv, Fits
  <2> QED
    BY <1>0, <1>19, <2>1, <2>2 DEF AskModule, JobInv, Fits
<1> QED
  BY <1>6, <1>7, <1>8, <1>10, <1>11, <1>12, <1>13, <1>14, <1>15, <1>16, <1>17, <1>18, <1>19
     DEF LifecycleStep

LEMMA NextLineInv ==
    ASSUME LifecycleInv, NEW t \in Callers, LifecycleCall(t) \/ LifecycleStep(t)
    PROVE  LineInv'
<1> USE DEF At, Over
<1>0. JobInv /\ LineInv /\ InsideInv /\ OthersStay(t)
  BY NextJobInv DEF LifecycleInv
<1>1. lpc \in [Callers -> LifecyclePlaces] /\ statesLock \in StatesLockings
  BY <1>0 DEF JobInv
<1>2. /\ "read" \in TicketKinds /\ "write" \in TicketKinds /\ "all" \in TicketKinds
      /\ \A k \in TicketKinds : Ask(statesLock, t, k).queue = Append(statesLock.queue, <<t, k>>)
      /\ Pass(statesLock).queue = Tail(statesLock.queue)
      /\ Enter(statesLock).queue = Tail(statesLock.queue)
      /\ Leave(statesLock, t, "all").queue = statesLock.queue
  BY <1>1, StatesLockOperations DEF TicketKinds
<1>3. ASSUME MayEnter(statesLock, t), NEW k \in TicketKinds
      PROVE  Ask(Pass(statesLock), t, k).queue = Append(Tail(statesLock.queue), <<t, k>>)
  <2>1. Pass(statesLock) \in StatesLockings
    BY <1>1, <1>2, <1>3, StatesLockOperations DEF MayEnter
  <2>2. Ask(Pass(statesLock), t, k).queue = Append(Pass(statesLock).queue, <<t, k>>)
    BY <1>3, <2>1, StatesLockOperations
  <2> QED
    BY ONLY <1>2, <2>2
\* Passing, and asking again or not.
<1>4. ASSUME MayEnter(statesLock, t), statesLock'.queue = Tail(statesLock.queue)
      PROVE  LineInv'
  BY <1>0, <1>4, LineStep
<1>5. ASSUME NEW k \in TicketKinds, MayEnter(statesLock, t), PassAndAsk(t, k), Awaits(t, k)'
      PROVE  LineInv'
  BY <1>0, <1>3, <1>5, LineStep DEF PassAndAsk
<1>6. ASSUME NEW k \in TicketKinds, lpc[t] \in {"idle", "hook", "next"},
             statesLock' = Ask(statesLock, t, k), Awaits(t, k)'
      PROVE  LineInv'
  <2>1. \A j : ~Awaits(t, j)
    BY <1>6 DEF Awaits
  <2> QED
    BY <1>0, <1>2, <1>6, <2>1, LineStep
<1>7. ASSUME lpc[t] \in {"next", "ask", "cache"}, statesLock'.queue = statesLock.queue
      PROVE  LineInv'
  <2>1. \A j : ~Awaits(t, j)
    BY <1>7 DEF Awaits
  <2> QED
    BY <1>0, <1>7, <2>1, LineStep
<1>8. ASSUME LifecycleCall(t) PROVE LineInv'
  <2>1. ASSUME NEW op, NEW n, NEW arg, NEW place \in {"exists", "look", "probe"},
               Begin(t, op, n, arg, place, "read")
        PROVE  LineInv'
    BY <1>1, <1>2, <1>6, <2>1 DEF Begin, Awaits
  <2>2. ASSUME NEW op, NEW n, NEW arg, Begin(t, op, n, arg, "put", "write")
        PROVE  LineInv'
    BY <1>1, <1>2, <1>6, <2>2 DEF Begin, Awaits
  <2>3. ASSUME NEW op, NEW n, NEW arg, Begin(t, op, n, arg, "all", "all")
        PROVE  LineInv'
    BY <1>1, <1>2, <1>6, <2>3 DEF Begin, Awaits
  <2> QED
    BY <1>8, <2>1, <2>2, <2>3 DEF LifecycleCall, StartModule, StopModule, RestartModule,
       RegisterModule, HealthCheck, PutState, HealthCheckAll
<1>9. ASSUME Exists(t) PROVE LineInv'
  <2>1. CASE JustPass
    BY <1>2, <1>4, <1>9, <2>1 DEF JustPass, Exists
  <2>2. CASE PassAndAsk(t, "read") /\ lpc' = [lpc EXCEPT ![t] = "look"]
    BY <1>1, <1>2, <1>5, <1>9, <2>2 DEF Exists, Awaits
  <2> QED
    BY <1>9, <2>1, <2>2 DEF Exists
<1>10. ASSUME LookUp(t) PROVE LineInv'
  <2>1. CASE JustPass
    BY <1>2, <1>4, <1>10, <2>1 DEF JustPass, LookUp
  <2>2. CASE PassAndAsk(t, "read") /\ UNCHANGED lpc
    BY <1>1, <1>2, <1>5, <1>10, <2>2 DEF LookUp, Awaits
  <2>3. CASE PassAndAsk(t, "write") /\ lpc' = [lpc EXCEPT ![t] = "begin"]
    BY <1>1, <1>2, <1>5, <1>10, <2>3 DEF LookUp, Awaits
  <2> QED
    BY <1>10, <2>1, <2>2, <2>3 DEF LookUp
<1>11. ASSUME EnterTransient(t) \/ Put(t) PROVE LineInv'
  BY <1>2, <1>4, <1>11 DEF EnterTransient, Put, Writes, JustPass
<1>12. ASSUME CallHook(t) PROVE LineInv'
  BY <1>1, <1>2, <1>6, <1>12 DEF CallHook, Awaits
<1>13. ASSUME EnterFinal(t) PROVE LineInv'
  <2>1. CASE JustPass
    BY <1>2, <1>4, <1>13, <2>1 DEF JustPass, EnterFinal, Writes
  <2>2. CASE PassAndAsk(t, "read") /\ lpc' = [lpc EXCEPT ![t] = "look"]
    BY <1>1, <1>2, <1>5, <1>13, <2>2 DEF EnterFinal, Writes, Awaits
  <2> QED
    BY <1>13, <2>1, <2>2 DEF EnterFinal
<1>14. ASSUME EnterAll(t) PROVE LineInv'
  BY <1>2, <1>4, <1>14 DEF EnterAll
<1>15. ASSUME AllChecked(t) PROVE LineInv'
  BY <1>2, <1>7, <1>15 DEF AllChecked
<1>16. ASSUME Probe(t) PROVE LineInv'
  BY <1>2, <1>4, <1>16 DEF Probe, JustPass
<1>17. ASSUME CacheVerdict(t) PROVE LineInv'
  BY <1>7, <1>17 DEF CacheVerdict
<1>18. ASSUME NEW n \in Names, CheckNext(t, n) PROVE LineInv'
  BY <1>1, <1>2, <1>6, <1>18 DEF CheckNext, Awaits
<1>19. ASSUME NEW v \in Verdicts, AskModule(t, v) PROVE LineInv'
  BY <1>7, <1>19 DEF AskModule
<1> QED
  BY <1>8, <1>9, <1>10, <1>11, <1>12, <1>13, <1>14, <1>15, <1>16, <1>17, <1>18, <1>19
     DEF LifecycleStep

\* Only health_check_all comes in and goes out.
LEMMA NextInsideInv ==
    ASSUME LifecycleInv, NEW t \in Callers, LifecycleCall(t) \/ LifecycleStep(t)
    PROVE  InsideInv'
<1> USE DEF At, Job, Over
<1>0. JobInv /\ LineInv /\ InsideInv /\ OthersStay(t)
  BY NextJobInv DEF LifecycleInv
<1>1. /\ lpc \in [Callers -> LifecyclePlaces] /\ job \in [Callers -> Jobs]
      /\ statesLock \in StatesLockings /\ Fits(lpc[t], job[t])
  BY <1>0 DEF JobInv
<1>2. /\ "read" \in TicketKinds /\ "write" \in TicketKinds /\ "all" \in TicketKinds
      /\ \A k \in TicketKinds : Ask(statesLock, t, k).held = statesLock.held
      /\ Pass(statesLock).held = statesLock.held
      /\ Enter(statesLock).held = statesLock.held \cup {Head(statesLock.queue)}
      /\ Leave(statesLock, t, "all").held = statesLock.held \ {<<t, "all">>}
  BY <1>1, StatesLockOperations DEF TicketKinds
<1>3. ASSUME MayEnter(statesLock, t), NEW k \in TicketKinds
      PROVE  Ask(Pass(statesLock), t, k).held = statesLock.held
  <2>1. Pass(statesLock) \in StatesLockings
    BY <1>1, <1>2, <1>3, StatesLockOperations DEF MayEnter
  <2> QED
    BY <1>2, <2>1, StatesLockOperations
<1>4. \A u \in Callers \ {t} : /\ <<u, "all">> \in statesLock.held <=> Inside(u)
                               /\ Inside(u)' <=> Inside(u)
  BY <1>0 DEF InsideInv, OthersStay, Inside
<1>5. <<t, "all">> \in statesLock.held <=> Inside(t)
  BY <1>0 DEF InsideInv
<1>6. ASSUME statesLock'.held = statesLock.held, Inside(t)' <=> Inside(t)
      PROVE  InsideInv'
  BY <1>4, <1>5, <1>6 DEF InsideInv
<1>7. ASSUME \/ statesLock' = statesLock \/ JustPass
             \/ \E k \in TicketKinds : statesLock' = Ask(statesLock, t, k)
             \/ \E k \in TicketKinds : MayEnter(statesLock, t) /\ PassAndAsk(t, k)
      PROVE  statesLock'.held = statesLock.held
  BY <1>2, <1>3, <1>7 DEF JustPass, PassAndAsk
<1>8. NoJob.op # "checkAll"
  BY DEF NoJob
<1>9. ASSUME LifecycleCall(t) PROVE InsideInv'
  <2>1. ASSUME NEW op, NEW n, NEW arg, NEW place, NEW k \in TicketKinds,
               Begin(t, op, n, arg, place, k), op = "checkAll" => place = "all"
        PROVE  InsideInv'
    <3>1. ~Inside(t) /\ ~Inside(t)'
      BY <1>1, <2>1 DEF Begin, Inside, Fits
    <3> QED
      BY <1>6, <1>7, <2>1, <3>1 DEF Begin
  <2> QED
    BY <1>2, <1>9, <2>1 DEF LifecycleCall, StartModule, StopModule, RestartModule,
       RegisterModule, HealthCheck, PutState, HealthCheckAll
<1>10. ASSUME Exists(t) \/ LookUp(t) \/ EnterTransient(t) \/ CallHook(t) \/ EnterFinal(t) \/ Put(t)
       PROVE  InsideInv'
  <2>1. lpc[t] \in {"exists", "look", "begin", "hook", "finish", "put"}
    BY <1>10 DEF Exists, LookUp, EnterTransient, CallHook, EnterFinal, Put
  <2>2. job[t].op # "checkAll"
    BY <1>1, <2>1 DEF Fits
  <2>3. job'[t].op # "checkAll"
    <3>1. job'[t] \in {job[t], NoJob} \/ job'[t].op = "restart"
      BY <1>1, <1>10 DEF Exists, LookUp, EnterTransient, CallHook, EnterFinal, Put
    <3> QED
      BY <1>8, <2>2, <3>1
  <2>4. statesLock'.held = statesLock.held
    BY <1>2, <1>7, <1>10 DEF Exists, LookUp, EnterTransient, CallHook, EnterFinal, Put, Writes
  <2> QED
    BY <1>6, <2>2, <2>3, <2>4 DEF Inside
<1>11. ASSUME EnterAll(t) PROVE InsideInv'
  <2>1. Head(statesLock.queue) = <<t, "all">> /\ Inside(t)'
    BY <1>0, <1>1, <1>11, TicketTold DEF EnterAll, Awaits, Inside, Fits
  <2>2. statesLock'.held = statesLock.held \cup {<<t, "all">>}
    BY <1>2, <1>11, <2>1 DEF EnterAll
  <2>3. \A u \in Callers : <<u, "all">> = <<t, "all">> => u = t
    OBVIOUS
  <2> QED
    BY <1>4, <2>1, <2>2, <2>3 DEF InsideInv
<1>12. ASSUME AllChecked(t) PROVE InsideInv'
  <2>1. ~Inside(t)' /\ statesLock'.held = statesLock.held \ {<<t, "all">>}
    BY <1>1, <1>2, <1>8, <1>12 DEF AllChecked, Inside
  <2>2. \A u \in Callers : <<u, "all">> = <<t, "all">> => u = t
    OBVIOUS
  <2> QED
    BY <1>4, <2>1, <2>2 DEF InsideInv
<1>13. ASSUME Probe(t) PROVE InsideInv'
  <2>1. statesLock'.held = statesLock.held
    BY <1>7, <1>13 DEF Probe
  <2>2. CASE status[job[t].name] # "absent"
    BY <1>1, <1>6, <1>13, <2>1, <2>2 DEF Probe, Inside
  <2>3. CASE status[job[t].name] = "absent"
    <3>1. ~Inside(t)
      BY <1>13, <2>3 DEF Probe, LifecycleInv, PresentInv
    <3>2. ~Inside(t)'
      BY <1>1, <1>8, <1>13, <2>3 DEF Probe, Inside
    <3> QED
      BY <1>6, <2>1, <3>1, <3>2
  <2> QED
    BY <2>2, <2>3
<1>14. ASSUME CacheVerdict(t) PROVE InsideInv'
  BY <1>1, <1>6, <1>8, <1>14 DEF CacheVerdict, Inside
<1>15. ASSUME NEW n \in Names, CheckNext(t, n) PROVE InsideInv'
  <2>1. statesLock'.held = statesLock.held
    BY <1>2, <1>7, <1>15 DEF CheckNext
  <2> QED
    BY <1>1, <1>6, <1>15, <2>1 DEF CheckNext, Inside, Fits
<1>16. ASSUME NEW v \in Verdicts, AskModule(t, v) PROVE InsideInv'
  BY <1>1, <1>6, <1>16 DEF AskModule, Inside
<1> QED
  BY <1>9, <1>10, <1>11, <1>12, <1>13, <1>14, <1>15, <1>16 DEF LifecycleStep

\* Whoever writes a state finds no health_check_all inside; all others leave the
\* states alone.
LEMMA StatusStep ==
    ASSUME LifecycleInv, NEW t \in Callers, LifecycleCall(t) \/ LifecycleStep(t)
    PROVE  \/ /\ lpc[t] \in {"begin", "finish", "put"} /\ \A u \in Callers : ~Inside(u)
              /\ \E s \in LifecycleStates : Writes(t, s)
              /\ UNCHANGED <<unchecked, report>>
           \/ UNCHANGED status
<1>1. JobInv /\ LineInv /\ InsideInv /\ Fits(lpc[t], job[t])
  BY DEF LifecycleInv, JobInv
<1>2. ASSUME NEW s \in LifecycleStates, Writes(t, s), lpc[t] \in {"begin", "finish", "put"}
      PROVE  \A u \in Callers : ~Inside(u)
  BY <1>1, <1>2, TicketTold DEF Writes
<1>3. CASE EnterTransient(t)
  <2>1. Transient(t) \in LifecycleStates
    BY DEF Transient, LifecycleStates
  <2> QED
    BY <1>2, <1>3, <2>1 DEF EnterTransient, checkVars
<1>4. CASE EnterFinal(t)
  <2>1. Final(t) \in LifecycleStates
    BY DEF Final, LifecycleStates
  <2> QED
    BY <1>2, <1>4, <2>1 DEF EnterFinal, checkVars
<1>5. CASE Put(t)
  <2>1. job[t].arg \in LifecycleStates
    BY <1>1, <1>5 DEF Put, Fits
  <2> QED
    BY <1>2, <1>5, <2>1 DEF Put, checkVars
<1>6. CASE LifecycleCall(t)
  BY <1>6 DEF LifecycleCall, StartModule, StopModule, RestartModule, RegisterModule, HealthCheck,
     PutState, HealthCheckAll, Begin
<1>7. CASE \/ Exists(t) \/ LookUp(t) \/ CallHook(t) \/ EnterAll(t) \/ AllChecked(t) \/ Probe(t)
           \/ CacheVerdict(t) \/ (\E n \in Names : CheckNext(t, n))
           \/ (\E v \in Verdicts : AskModule(t, v))
  BY <1>7 DEF Exists, LookUp, CallHook, EnterAll, AllChecked, Probe, CacheVerdict, CheckNext, AskModule
<1> QED
  BY <1>3, <1>4, <1>5, <1>6, <1>7 DEF LifecycleStep

LEMMA NextPresentInv ==
    ASSUME LifecycleInv, NEW t \in Callers, LifecycleCall(t) \/ LifecycleStep(t)
    PROVE  PresentInv'
<1> USE DEF At, Job, Over
<1>1. /\ lpc \in [Callers -> LifecyclePlaces] /\ job \in [Callers -> Jobs] /\ OthersStay(t)
      /\ status \in [Names -> LifecycleStates \cup {"absent"}]
      /\ unchecked \in [Callers -> SUBSET Names] /\ Fits(lpc[t], job[t])
      /\ \A u \in Callers : Fits(lpc[u], job[u])
  BY NextJobInv DEF LifecycleInv, JobInv
<1>2. \A n \in Names : status[n] # "absent" => status'[n] # "absent"
  <2>1. "absent" \notin LifecycleStates
    BY DEF LifecycleStates
  <2> QED
    BY <1>1, <2>1, StatusStep DEF Writes
<1>3. PresentInv
  BY DEF LifecycleInv
<1>4. ASSUME NEW u \in Callers \ {t}, unchecked'[u] = unchecked[u]
      PROVE  /\ \A n \in unchecked'[u] : status'[n] # "absent"
             /\ (Inside(u) /\ lpc[u] = "probe")' => (status[job[u].name] # "absent")'
  <2>1. unchecked[u] \subseteq Names
    BY <1>1
  <2>2. lpc'[u] = lpc[u] /\ job'[u] = job[u] /\ (Inside(u)' <=> Inside(u))
    BY <1>1 DEF OthersStay, Inside
  <2>3. lpc[u] = "probe" => job[u].name \in Names
    BY <1>1 DEF Fits
  <2> QED
    BY <1>2, <1>3, <1>4, <2>1, <2>2, <2>3 DEF PresentInv
<1>5. ASSUME \A u \in Callers \ {t} : unchecked'[u] = unchecked[u],
             \A n \in unchecked'[t] : status'[n] # "absent",
             (Inside(t) /\ lpc[t] = "probe")' => (status[job[t].name] # "absent")'
      PROVE  PresentInv'
  BY <1>4, <1>5 DEF PresentInv
<1>6. ASSUME UNCHANGED unchecked, ~(Inside(t) /\ lpc[t] = "probe")'
      PROVE  PresentInv'
  <2>1. \A n \in unchecked[t] : n \in Names /\ status[n] # "absent"
    BY <1>1, <1>3 DEF PresentInv
  <2> QED
    BY <1>2, <1>5, <1>6, <2>1
<1>7. ASSUME LifecycleCall(t) PROVE PresentInv'
  <2>1. UNCHANGED unchecked /\ (lpc'[t] = "probe" => job'[t].op = "check")
    BY <1>1, <1>7 DEF LifecycleCall, StartModule, StopModule, RestartModule, RegisterModule,
       HealthCheck, PutState, HealthCheckAll, Begin, checkVars
  <2> QED
    BY <1>6, <2>1 DEF Inside
<1>8. ASSUME \/ Exists(t) \/ LookUp(t) \/ EnterTransient(t) \/ CallHook(t) \/ EnterFinal(t) \/ Put(t)
             \/ AllChecked(t) \/ Probe(t) \/ CacheVerdict(t) \/ (\E v \in Verdicts : AskModule(t, v))
      PROVE  PresentInv'
  <2>1. lpc'[t] # "probe"
    BY <1>1, <1>8 DEF Exists, LookUp, EnterTransient, CallHook, EnterFinal, Put,
       AllChecked, Probe, CacheVerdict, AskModule
  <2>2. UNCHANGED unchecked
    BY <1>8 DEF Exists, LookUp, EnterTransient, CallHook, EnterFinal, Put,
       AllChecked, Probe, CacheVerdict, AskModule, checkVars
  <2> QED
    BY <1>6, <2>1, <2>2
<1>9. ASSUME EnterAll(t) PROVE PresentInv'
  <2>1. /\ \A u \in Callers \ {t} : unchecked'[u] = unchecked[u]
        /\ unchecked'[t] = {n \in Names : status[n] # "absent"}
        /\ lpc'[t] # "probe" /\ status' = status
    BY <1>1, <1>9 DEF EnterAll
  <2> QED
    BY <1>5, <2>1
<1>10. ASSUME NEW n \in Names, CheckNext(t, n) PROVE PresentInv'
  <2>1. /\ \A u \in Callers \ {t} : unchecked'[u] = unchecked[u]
        /\ unchecked'[t] = unchecked[t] \ {n} /\ n \in unchecked[t]
        /\ job'[t].name = n /\ status' = status
    BY <1>1, <1>10 DEF CheckNext
  <2> QED
    BY <1>3, <1>5, <2>1 DEF PresentInv
<1> QED
  BY <1>7, <1>8, <1>9, <1>10 DEF LifecycleStep

LEMMA NextReportInv ==
    ASSUME LifecycleInv, NEW t \in Callers, LifecycleCall(t) \/ LifecycleStep(t)
    PROVE  ReportInv'
<1> USE DEF At, Job, Over
<1>1. /\ lpc \in [Callers -> LifecyclePlaces] /\ job \in [Callers -> Jobs] /\ OthersStay(t)
      /\ report \in [Callers -> [Names -> Verdicts \cup {"none"}]]
      /\ Fits(lpc[t], job[t])
  BY NextJobInv DEF LifecycleInv, JobInv
<1>2. ReportInv /\ PresentInv
  BY DEF LifecycleInv
<1>3. \A u \in Callers \ {t} : Inside(u)' <=> Inside(u)
  BY <1>1 DEF OthersStay, Inside
<1>4. NoJob.op # "checkAll" /\ \A n \in Names : EmptyReport[n] = "none"
  BY DEF NoJob, EmptyReport
\* Nobody is inside: a writer.
<1>5. ASSUME \A u \in Callers : ~Inside(u), UNCHANGED report, ~Inside(t)'
      PROVE  ReportInv'
  BY <1>2, <1>3, <1>5 DEF ReportInv, ReportIsOneState
\* Everybody else sees to itself.
<1>6. ASSUME UNCHANGED status, \A u \in Callers \ {t} : report'[u] = report[u],
             \A n \in Names : report'[t][n] # "none" =>
                 /\ Inside(t)'
                 /\ status[n] # "absent"
                 /\ status[n] # "Running" => report'[t][n] = Judged(status[n]),
             Inside(t)' /\ lpc'[t] = "ask" => status[job'[t].name] = "Running",
             Inside(t)' /\ lpc'[t] = "cache" =>
                 /\ status[job'[t].name] # "absent"
                 /\ status[job'[t].name] # "Running" => job'[t].arg = Judged(status[job'[t].name])
      PROVE  ReportInv'
  <2>1. ASSUME NEW u \in Callers, NEW n \in Names, report'[u][n] # "none"
        PROVE  /\ Inside(u)' /\ status[n] # "absent"
               /\ status[n] # "Running" => report'[u][n] = Judged(status[n])
    <3>1. CASE u = t
      BY <1>6, <2>1, <3>1
    <3>2. CASE u # t
      BY <1>2, <1>3, <1>6, <2>1, <3>2 DEF ReportInv, ReportIsOneState
    <3> QED
      BY <3>1, <3>2
  <2>2. ASSUME NEW u \in Callers, Inside(u)'
        PROVE  /\ lpc'[u] = "ask" => status[job'[u].name] = "Running"
               /\ lpc'[u] = "cache" =>
                     /\ status[job'[u].name] # "absent"
                     /\ status[job'[u].name] # "Running" => job'[u].arg = Judged(status[job'[u].name])
    <3>1. CASE u = t
      BY <1>6, <2>2, <3>1
    <3>2. CASE u # t
      <4>1. Inside(u) /\ lpc'[u] = lpc[u] /\ job'[u] = job[u]
        BY <1>1, <1>3, <2>2, <3>2 DEF OthersStay
      <4> QED
        BY <1>2, <4>1 DEF ReportInv
    <3> QED
      BY <3>1, <3>2
  <2> QED
    BY <1>6, <2>1, <2>2 DEF ReportInv, ReportIsOneState
\* What t has found stays as it is.
<1>7. ASSUME UNCHANGED <<status, report>>, Inside(t) => Inside(t)',
             Inside(t)' /\ lpc'[t] = "ask" => status[job'[t].name] = "Running",
             Inside(t)' /\ lpc'[t] = "cache" =>
                 /\ status[job'[t].name] # "absent"
                 /\ status[job'[t].name] # "Running" => job'[t].arg = Judged(status[job'[t].name])
      PROVE  ReportInv'
  <2>1. \A n \in Names : report'[t][n] # "none" =>
                 /\ Inside(t)'
                 /\ status[n] # "absent"
                 /\ status[n] # "Running" => report'[t][n] = Judged(status[n])
    BY <1>2, <1>7 DEF ReportInv, ReportIsOneState
  <2> QED
    BY <1>6, <1>7, <2>1
<1>8. ASSUME UNCHANGED <<status, report>>, Inside(t) => Inside(t)', lpc'[t] \notin {"ask", "cache"}
      PROVE  ReportInv'
  BY <1>7, <1>8
<1>9. ASSUME LifecycleCall(t) PROVE ReportInv'
  <2>1. lpc[t] = "idle" /\ UNCHANGED <<status, report>> /\ lpc'[t] \notin {"ask", "cache"}
    BY <1>1, <1>9 DEF LifecycleCall, StartModule, StopModule, RestartModule, RegisterModule,
       HealthCheck, PutState, HealthCheckAll, Begin, checkVars
  <2>2. ~Inside(t)
    BY <1>1, <2>1 DEF Inside, Fits
  <2> QED
    BY <1>8, <2>1, <2>2
<1>10. ASSUME Exists(t) \/ LookUp(t) \/ CallHook(t) PROVE ReportInv'
  <2>1. /\ lpc[t] \in {"exists", "look", "hook"} /\ UNCHANGED <<status, report>>
        /\ lpc'[t] \notin {"ask", "cache"}
    BY <1>1, <1>10 DEF Exists, LookUp, CallHook, checkVars
  <2>2. ~Inside(t)
    BY <1>1, <2>1 DEF Inside, Fits
  <2> QED
    BY <1>8, <2>1, <2>2
<1>11. ASSUME EnterTransient(t) \/ EnterFinal(t) \/ Put(t) PROVE ReportInv'
  <2>1. UNCHANGED report /\ lpc[t] \in {"begin", "finish", "put"}
    BY <1>11 DEF EnterTransient, EnterFinal, Put, checkVars
  <2>2. \A u \in Callers : ~Inside(u)
    BY <1>11, TicketTold DEF LifecycleInv, EnterTransient, EnterFinal, Put, Writes
  <2>3. job'[t] \in {job[t], NoJob} \/ job'[t].op = "restart"
    BY <1>1, <1>11 DEF EnterTransient, EnterFinal, Put
  <2>4. job[t].op # "checkAll"
    BY <1>1, <2>1 DEF Fits
  <2>5. ~Inside(t)'
    BY <1>4, <2>3, <2>4 DEF Inside
  <2> QED
    BY <1>5, <2>1, <2>2, <2>5
<1>12. ASSUME EnterAll(t) PROVE ReportInv'
  <2>1. ~Inside(t) /\ UNCHANGED <<status, report>> /\ lpc'[t] = "next"
    BY <1>1, <1>12 DEF EnterAll, Inside
  <2> QED
    BY <1>8, <2>1
<1>13. ASSUME AllChecked(t) PROVE ReportInv'
  <2>1. /\ report'[t] = EmptyReport /\ \A u \in Callers \ {t} : report'[u] = report[u]
        /\ UNCHANGED status /\ lpc'[t] = "idle"
    BY <1>1, <1>13 DEF AllChecked
  <2> QED
    BY <1>4, <1>6, <2>1
<1>14. ASSUME Probe(t) PROVE ReportInv'
  <2>1. lpc[t] = "probe" /\ UNCHANGED <<status, report>>
    BY <1>14 DEF Probe, checkVars
  <2>2. Inside(t) => status[job[t].name] # "absent"
    BY <1>2, <2>1 DEF PresentInv
  <2>3. CASE status[job[t].name] = "absent"
    <3>1. lpc'[t] = "idle"
      BY <1>1, <1>14, <2>3 DEF Probe
    <3> QED
      BY <1>8, <2>1, <2>2, <2>3, <3>1
  <2>4. CASE status[job[t].name] = "Running"
    <3>1. lpc'[t] = "ask" /\ job' = job
      BY <1>1, <1>14, <2>4 DEF Probe
    <3> QED
      BY <1>7, <2>1, <2>4, <3>1 DEF Inside
  <2>5. CASE status[job[t].name] \notin {"absent", "Running"}
    <3>1. /\ lpc'[t] = "cache" /\ job'[t].op = job[t].op /\ job'[t].name = job[t].name
          /\ job'[t].arg = Judged(status[job[t].name])
      BY <1>1, <1>14, <2>5 DEF Probe
    <3> QED
      BY <1>7, <2>1, <2>5, <3>1 DEF Inside
  <2> QED
    BY <2>3, <2>4, <2>5
<1>15. ASSUME NEW v \in Verdicts, AskModule(t, v) PROVE ReportInv'
  <2>1. /\ lpc[t] = "ask" /\ lpc'[t] = "cache" /\ UNCHANGED <<status, report>>
        /\ job'[t].op = job[t].op /\ job'[t].name = job[t].name
    BY <1>1, <1>15 DEF AskModule, checkVars
  <2>2. Inside(t) => status[job[t].name] = "Running"
    BY <1>2, <2>1 DEF ReportInv
  <2>3. Inside(t)' <=> Inside(t)
    BY <2>1 DEF Inside
  <2> QED
    BY <1>7, <2>1, <2>2, <2>3
<1>16. ASSUME CacheVerdict(t) PROVE ReportInv'
  <2> DEFINE n == job[t].name
             v == job[t].arg
  <2>1. lpc[t] = "cache" /\ UNCHANGED status /\ job[t].op \in {"check", "checkAll"} /\ n \in Names
    BY <1>1, <1>16 DEF CacheVerdict, Fits
  <2>2. CASE job[t].op = "check"
    <3>1. lpc'[t] = "idle" /\ UNCHANGED report /\ ~Inside(t)
      BY <1>1, <1>16, <2>2 DEF CacheVerdict, Inside
    <3> QED
      BY <1>8, <2>1, <3>1
  <2>3. CASE job[t].op = "checkAll"
    <3>1. Inside(t) /\ Inside(t)' /\ lpc'[t] = "next"
      BY <1>1, <1>16, <2>1, <2>3 DEF CacheVerdict, Inside
    <3>2. status[n] # "absent" /\ (status[n] # "Running" => v = Judged(status[n]))
      BY <1>2, <2>1, <3>1 DEF ReportInv
    <3>3. report' = [report EXCEPT ![t][n] = v]
      BY <1>16, <2>3 DEF CacheVerdict
    <3> HIDE DEF n, v
    <3>4. /\ \A u \in Callers \ {t} : report'[u] = report[u]
          /\ \A m \in Names \ {n} : report'[t][m] = report[t][m]
          /\ report'[t][n] = v
      BY <1>1, <2>1, <3>3
    <3>5. \A m \in Names : report'[t][m] # "none" =>
              /\ Inside(t)' /\ status[m] # "absent"
              /\ status[m] # "Running" => report'[t][m] = Judged(status[m])
      BY <1>2, <3>1, <3>2, <3>4 DEF ReportInv, ReportIsOneState
    <3> QED
      BY <1>6, <2>1, <3>1, <3>4, <3>5
  <2> QED
    BY <2>1, <2>2, <2>3
<1>17. ASSUME NEW n \in Names, CheckNext(t, n) PROVE ReportInv'
  <2>1. /\ UNCHANGED <<status, report>> /\ lpc'[t] = "probe" /\ Inside(t)'
    BY <1>1, <1>17 DEF CheckNext, Inside
  <2> QED
    BY <1>8, <2>1
<1> QED
  BY <1>9, <1>10, <1>11, <1>12, <1>13, <1>14, <1>15, <1>16, <1>17 DEF LifecycleStep

LEMMA NextLookInv ==
    ASSUME LifecycleInv, NEW t \in Callers, LifecycleCall(t) \/ LifecycleStep(t)
    PROVE  LookInv'
<1> USE DEF At, Job, Over
<1>1. /\ lpc \in [Callers -> LifecyclePlaces] /\ job \in [Callers -> Jobs] /\ OthersStay(t)
      /\ status \in [Names -> LifecycleStates \cup {"absent"}]
      /\ disturbed \in [Callers -> BOOLEAN]
      /\ \A u \in Callers : Fits(lpc[u], job[u])
  BY NextJobInv DEF LifecycleInv, JobInv
<1>2. LookInv
  BY DEF LifecycleInv
<1>3. ASSUME NEW u \in Callers \ {t}, ~disturbed'[u]
      PROVE  /\ (lpc[u] = "begin" => Allowed(u))'
             /\ (lpc[u] \in {"hook", "finish"} => status[job[u].name] = Transient(u))'
  <2>1. lpc'[u] = lpc[u] /\ job'[u] = job[u]
    BY <1>1 DEF OthersStay
  <2>2. \/ disturbed'[u] = disturbed[u] /\ status' = status
        \/ \E s : Writes(t, s) /\ lpc[t] \in {"begin", "finish", "put"}
    <3>1. CASE UNCHANGED <<disturbed, status>>
      BY <3>1
    <3>2. CASE LookUp(t)
      BY <1>1, <3>2 DEF LookUp
    <3>3. CASE LifecycleCall(t)
      BY <3>1, <3>3 DEF LifecycleCall, StartModule, StopModule, RestartModule, RegisterModule,
         HealthCheck, PutState, HealthCheckAll, Begin
    <3>4. CASE EnterTransient(t) \/ EnterFinal(t) \/ Put(t)
      BY <3>4 DEF EnterTransient, EnterFinal, Put
    <3>5. CASE \/ Exists(t) \/ CallHook(t) \/ EnterAll(t) \/ AllChecked(t) \/ Probe(t)
               \/ CacheVerdict(t) \/ (\E n \in Names : CheckNext(t, n))
               \/ (\E v \in Verdicts : AskModule(t, v))
      BY <3>1, <3>5 DEF Exists, CallHook, EnterAll, AllChecked, Probe, CacheVerdict, CheckNext, AskModule
    <3> QED
      BY <3>2, <3>3, <3>4, <3>5 DEF LifecycleStep
  <2>3. ~disturbed[u] /\ (lpc[u] \in {"begin", "hook", "finish"} => status'[job[u].name] = status[job[u].name])
    <3>1. CASE disturbed'[u] = disturbed[u] /\ status' = status
      BY <1>3, <3>1
    <3>2. CASE \E s : Writes(t, s) /\ lpc[t] \in {"begin", "finish", "put"}
      <4>1. job[u].name # job[t].name /\ ~disturbed[u]
        BY <1>3, <3>2 DEF Writes
      <4>2. lpc[u] \in {"begin", "hook", "finish"} => job[u].name \in Names
        BY <1>1 DEF Fits
      <4> QED
        BY <1>1, <3>2, <4>1, <4>2 DEF Writes
    <3> QED
      BY <2>2, <3>1, <3>2
  <2> QED
    BY <1>2, <2>1, <2>3 DEF LookInv, Allowed, Transient, Stops
<1>4. ASSUME \/ lpc'[t] \notin {"begin", "hook", "finish"}
             \/ lpc'[t] = "begin" /\ Allowed(t)'
             \/ lpc'[t] \in {"hook", "finish"} /\ (~disturbed'[t] => status'[job'[t].name] = Transient(t)')
      PROVE  LookInv'
  BY <1>3, <1>4 DEF LookInv
<1>5. ASSUME LifecycleCall(t) PROVE LookInv'
  <2>1. lpc'[t] \notin {"begin", "hook", "finish"}
    BY <1>1, <1>5 DEF LifecycleCall, StartModule, StopModule, RestartModule, RegisterModule,
       HealthCheck, PutState, HealthCheckAll, Begin
  <2> QED
    BY <1>4, <2>1
<1>6. ASSUME LookUp(t) PROVE LookInv'
  <2>1. lpc'[t] \in {"begin", "look", "idle"} /\ status' = status
        /\ (lpc'[t] = "begin" => Allowed(t) /\ job' = job)
    BY <1>1, <1>6 DEF LookUp
  <2>2. lpc'[t] = "begin" => Allowed(t)'
    BY <2>1 DEF Allowed, Stops
  <2> QED
    BY <1>4, <2>1, <2>2
<1>7. ASSUME EnterTransient(t) PROVE LookInv'
  <2>1. lpc'[t] = "hook" /\ job' = job /\ lpc[t] = "begin" /\ job[t].name \in Names
    BY <1>1, <1>7 DEF EnterTransient, Fits
  <2>2. status'[job[t].name] = Transient(t)
    BY <1>1, <1>7, <2>1 DEF EnterTransient, Writes
  <2>3. Transient(t)' = Transient(t)
    BY <2>1 DEF Transient, Stops
  <2> QED
    BY <1>4, <2>1, <2>2, <2>3
<1>8. ASSUME CallHook(t) PROVE LookInv'
  <2>1. lpc'[t] = "finish" /\ lpc[t] = "hook" /\ UNCHANGED <<status, job, disturbed>>
    BY <1>1, <1>8 DEF CallHook
  <2>2. ~disturbed[t] => status[job[t].name] = Transient(t)
    BY <1>2, <2>1 DEF LookInv
  <2>3. Transient(t)' = Transient(t)
    BY <2>1 DEF Transient, Stops
  <2> QED
    BY <1>4, <2>1, <2>2, <2>3
<1>9. ASSUME \/ Exists(t) \/ EnterFinal(t) \/ Put(t) \/ EnterAll(t) \/ AllChecked(t) \/ Probe(t)
             \/ CacheVerdict(t) \/ (\E n \in Names : CheckNext(t, n))
             \/ (\E v \in Verdicts : AskModule(t, v))
      PROVE  LookInv'
  <2>1. lpc'[t] \notin {"begin", "hook", "finish"}
    BY <1>1, <1>9 DEF Exists, EnterFinal, Put, EnterAll, AllChecked, Probe, CacheVerdict, CheckNext, AskModule
  <2> QED
    BY <1>4, <2>1
<1> QED
  BY <1>5, <1>6, <1>7, <1>8, <1>9 DEF LifecycleStep

LEMMA NextLifecycleInv == LifecycleInv /\ [LifecycleNext]_lifecycleVars => LifecycleInv'
<1> SUFFICES ASSUME LifecycleInv, [LifecycleNext]_lifecycleVars
             PROVE  LifecycleInv'
  OBVIOUS
<1>1. ASSUME NEW t \in Callers, LifecycleCall(t) \/ LifecycleStep(t)
      PROVE  LifecycleInv'
  BY <1>1, NextJobInv, NextLineInv, NextInsideInv, NextPresentInv, NextReportInv, NextLookInv
     DEF LifecycleInv
<1>2. ASSUME UNCHANGED lifecycleVars
      PROVE  LifecycleInv'
  BY <1>2 DEF lifecycleVars, LifecycleInv, JobInv, LineInv, Lone, Tickets, Awaits, InsideInv, Inside,
     PresentInv, ReportInv, ReportIsOneState, LookInv, Allowed, Transient, Stops
<1> QED
  BY <1>1, <1>2 DEF LifecycleNext

\* health_check_all of lifecycle.rs reports states of one moment, however many
\* calls start, stop, restart and set modules meanwhile; and no other call
\* leaves the lock held between two steps.
THEOREM LifecycleAlwaysHolds == LifecycleSpec => []LifecycleHolds
<1>1. LifecycleInv => LifecycleHolds
  <2> SUFFICES ASSUME LifecycleInv PROVE LifecycleHolds
    OBVIOUS
  <2>1. JobInv /\ InsideInv /\ ReportIsOneState
    BY DEF LifecycleInv, ReportInv
  <2>2. ASSUME NEW h \in statesLock.held
        PROVE  h[2] = "all" /\ job[h[1]].op = "checkAll"
    <3>1. h \in Callers \X {"all"}
      BY <2>1 DEF JobInv, StatesLockings
    <3>2. h[1] \in Callers /\ h = <<h[1], "all">>
      BY <3>1
    <3> QED
      BY <2>1, <3>2 DEF InsideInv, Inside
  <2> QED
    BY <2>1, <2>2 DEF LifecycleHolds, LifecycleTypeOK, JobInv
<1> QED
  BY InitLifecycleInv, NextLifecycleInv, <1>1, PTL DEF LifecycleSpec

\* A call of start, stop or restart moves its module as lifecycle.rs documents
\* it, unless another call has changed the state since this one looked: what
\* was read under a lock that was given back is still so under the next.
THEOREM MovesDocumented == LifecycleSpec => MovesAsDocumentedUnlessDisturbed
<1>1. LifecycleInv /\ [LifecycleNext]_lifecycleVars =>
        [\A t \in Callers, n \in Names :
            (lpc[t] \in {"begin", "finish"} /\ lpc'[t] # lpc[t] /\ job[t].name = n /\ ~disturbed[t])
                => <<status[n], status'[n]>> \in DocumentedMoves]_lifecycleVars
  <2> SUFFICES ASSUME LifecycleInv, LifecycleNext, NEW t \in Callers, NEW n \in Names,
                      lpc[t] \in {"begin", "finish"}, lpc'[t] # lpc[t], job[t].name = n, ~disturbed[t]
               PROVE  <<status[n], status'[n]>> \in DocumentedMoves
    BY Zenon
  <2>1. LifecycleStep(t) \/ LifecycleCall(t)
    BY NextJobInv DEF LifecycleNext, OthersStay
  <2>2. \/ EnterTransient(t) /\ lpc[t] = "begin"
        \/ EnterFinal(t) /\ lpc[t] = "finish"
    BY <2>1 DEF LifecycleStep, LifecycleCall, StartModule, StopModule, RestartModule, RegisterModule,
       HealthCheck, PutState, HealthCheckAll, Begin, Exists, LookUp, CallHook, EnterAll, AllChecked,
       Probe, CacheVerdict, CheckNext, AskModule, Put, EnterTransient, EnterFinal
  <2>3. status \in [Names -> LifecycleStates \cup {"absent"}]
    BY DEF LifecycleInv, JobInv
  <2>4. CASE EnterTransient(t) /\ lpc[t] = "begin"
    <3>1. status'[n] = Transient(t)
      BY <2>3, <2>4 DEF EnterTransient, Writes
    <3>2. Allowed(t)
      BY <2>4 DEF LifecycleInv, LookInv
    <3> QED
      BY <3>1, <3>2 DEF Allowed, Transient, CanStart, CanStop, DocumentedMoves
  <2>5. CASE EnterFinal(t) /\ lpc[t] = "finish"
    <3>1. status'[n] = Final(t)
      BY <2>3, <2>5 DEF EnterFinal, Writes
    <3>2. status[n] = Transient(t)
      BY <2>5 DEF LifecycleInv, LookInv
    <3> QED
      BY <3>1, <3>2 DEF Final, Transient, DocumentedMoves
  <2> QED
    BY <2>2, <2>4, <2>5
<1> QED
  BY InitLifecycleInv, NextLifecycleInv, <1>1, PTL DEF LifecycleSpec, MovesAsDocumentedUnlessDisturbed

-------------------------------------------------------------------------------
(* Loops over a list, and iterations.                                      *)

\* A set of numbers has a least one: what a proof by induction rests on here, as a fact
\* about sets.
LEMMA LeastNat ==
    ASSUME NEW T \in SUBSET Nat, T # {}
    PROVE  \E x \in T : \A y \in T : x <= y
<1>1. ASSUME NEW R, IsWellFoundedOn(R, Nat), \A x, y \in Nat : <<y, x>> \in R <=> y < x
      PROVE  \E x \in T : \A y \in T : x <= y
  <2>1. PICK x \in T : \A y \in T : ~ (<<y, x>> \in R)
    BY <1>1, WFMin
  <2>2. ASSUME NEW y \in T PROVE x <= y
    <3>1. ~ (<<y, x>> \in R) /\ x \in Nat /\ y \in Nat
      BY <2>1
    <3>2. ~ (y < x)
      BY <1>1, <3>1, Zenon
    <3> QED
      BY <3>1, <3>2
  <2> QED
    BY <2>1, <2>2
<1>2. IsWellFoundedOn(OpToRel(<, Nat), Nat)
  BY NatLessThanWellFounded
<1>3. \A x, y \in Nat : <<y, x>> \in OpToRel(<, Nat) <=> y < x
  BY DEF OpToRel
<1> QED
  BY <1>1, <1>2, <1>3, Zenon

\* Induction: a set with 0 and the successors of its members has every number up to n.
LEMMA UpTo ==
    ASSUME NEW n \in Nat, NEW S, 0 \in S, \A k \in 0..(n - 1) : k \in S => k + 1 \in S
    PROVE  \A k \in 0..n : k \in S
<1> SUFFICES ASSUME NEW k \in 0..n, k \notin S PROVE FALSE
  OBVIOUS
<1> DEFINE T == {j \in 0..n : j \notin S}
<1>1. T \in SUBSET Nat /\ T # {}
  OBVIOUS
<1>2. PICK x \in T : \A y \in T : x <= y
  BY <1>1, LeastNat
<1>3. x # 0 /\ x - 1 \in 0..(n - 1) /\ (x - 1) + 1 = x
  BY <1>2
<1>4. x - 1 \in S
  BY <1>2, <1>3
<1> QED
  BY <1>2, <1>3, <1>4

\* A set of numbers up to n has a greatest one.
LEMMA Greatest ==
    ASSUME NEW n \in Nat, NEW S \in SUBSET (0..n), S # {}
    PROVE  Max(S) \in S /\ \A y \in S : y <= Max(S)
<1> DEFINE T == {m \in Nat : \A y \in S : y <= m}
<1>1. T \in SUBSET Nat /\ n \in T
  OBVIOUS
<1>2. PICK m \in T : \A y \in T : m <= y
  BY <1>1, LeastNat
<1>3. m \in S
  <2> SUFFICES ASSUME m \notin S PROVE FALSE
    OBVIOUS
  <2>1. \A y \in S : y \in Nat /\ y < m
    BY <1>2
  <2>2. m \in Nat /\ m > 0
    <3>1. PICK y \in S : TRUE
      OBVIOUS
    <3> QED
      BY <1>2, <2>1, <3>1
  <2>3. m - 1 \in Nat /\ ~ (m <= m - 1) /\ \A y \in S : y <= m - 1
    BY <2>1, <2>2
  <2> QED
    BY <1>2, <2>3
<1>4. \A y \in S : m >= y
  BY <1>2
<1>5. Max(S) \in S /\ \A y \in S : Max(S) >= y
  BY <1>3, <1>4 DEF Max
<1> QED
  BY <1>5

\* A fold over 1..n, from left to right, as SequencesExt defines it: by sets of indices, of
\* which it takes the greatest off.  There is one, for a step that is given as a function.
FoldOf(it, n, b, g) ==
    it = [s \in SUBSET (1..n) |-> IF s = {} THEN b ELSE g[<<it[s \ {Max(s)}], Max(s)>>]]

LEMMA FoldExists ==
    ASSUME NEW n \in Nat, NEW V, NEW b \in V, NEW g \in [V \X (1..n) -> V]
    PROVE  \E it \in [SUBSET (1..n) -> V] : FoldOf(it, n, b, g)
<1> DEFINE S == {k \in 0..n : \E it \in [SUBSET (1..k) -> V] : FoldOf(it, k, b, g)}
<1>1. 0 \in S
  <2> DEFINE h == [s \in SUBSET (1..0) |-> b]
  <2>1. \A s \in SUBSET (1..0) : s = {}
    OBVIOUS
  <2>2. h \in [SUBSET (1..0) -> V] /\ FoldOf(h, 0, b, g)
    BY <2>1 DEF FoldOf
  <2> QED
    BY <2>2
<1>2. ASSUME NEW k \in 0..(n - 1), k \in S PROVE k + 1 \in S
  <2>1. PICK it \in [SUBSET (1..k) -> V] : FoldOf(it, k, b, g)
    BY <1>2
  <2> DEFINE h == [s \in SUBSET (1..(k + 1)) |->
                     IF s \in SUBSET (1..k) THEN it[s] ELSE g[<<it[s \ {k + 1}], k + 1>>]]
  <2>2. \A s \in SUBSET (1..(k + 1)) : s \ {k + 1} \in SUBSET (1..k)
    OBVIOUS
  <2>3. h \in [SUBSET (1..(k + 1)) -> V]
    BY <2>1, <2>2
  <2>4. ASSUME NEW s \in SUBSET (1..(k + 1))
        PROVE  h[s] = IF s = {} THEN b ELSE g[<<h[s \ {Max(s)}], Max(s)>>]
    <3>1. CASE s \in SUBSET (1..k)
      <4>1. h[s] = it[s] /\ h[s \ {Max(s)}] = it[s \ {Max(s)}]
        BY <3>1
      <4>2. it[s] = IF s = {} THEN b ELSE g[<<it[s \ {Max(s)}], Max(s)>>]
        BY <2>1, <3>1 DEF FoldOf
      <4> QED
        BY <4>1, <4>2
    <3>2. CASE s \notin SUBSET (1..k)
      <4>1. k + 1 \in s /\ s # {} /\ s \in SUBSET (0..(k + 1))
        BY <3>2
      <4>2. Max(s) = k + 1
        <5>1. k + 1 \in Nat
          OBVIOUS
        <5>2. Max(s) \in s /\ \A y \in s : y <= Max(s)
          BY <4>1, <5>1, Greatest
        <5>3. Max(s) \in 1..(k + 1) /\ k + 1 <= Max(s)
          BY <4>1, <5>2
        <5> QED
          BY <5>1, <5>3
      <4>3. h[s \ {k + 1}] = it[s \ {k + 1}]
        BY <2>2
      <4> QED
        BY <3>2, <4>1, <4>2, <4>3
    <3> QED
      BY <3>1, <3>2
  <2>5. FoldOf(h, k + 1, b, g)
    BY <2>3, <2>4 DEF FoldOf
  <2>6. \E it2 \in [SUBSET (1..(k + 1)) -> V] : FoldOf(it2, k + 1, b, g)
    <3> HIDE DEF h
    <3> QED
      BY <2>3, <2>5
  <2>7. k + 1 \in 0..n
    OBVIOUS
  <2> QED
    BY <2>6, <2>7
<1>3. n \in S
  <2> HIDE DEF S
  <2> QED
    BY <1>1, <1>2, UpTo
<1> QED
  BY <1>3

\* The sets of indices that it comes by.
LEMMA Intervals ==
    ASSUME NEW n \in Nat, NEW k \in 1..n
    PROVE  /\ 1..k \in SUBSET (1..n) /\ 1..k # {}
           /\ Max(1..k) = k /\ (1..k) \ {k} = 1..(k - 1)
<1>1. 1..k \in SUBSET (1..n) /\ 1..k # {} /\ 1..k \in SUBSET (0..k) /\ k \in 1..k /\ k \in Nat
  OBVIOUS
<1>2. Max(1..k) \in 1..k /\ \A y \in 1..k : y <= Max(1..k)
  BY <1>1, Greatest
<1>3. k <= Max(1..k)
  BY <1>1, <1>2
<1>4. Max(1..k) = k
  BY <1>1, <1>2, <1>3
<1>5. (1..k) \ {k} = 1..(k - 1)
  OBVIOUS
<1> QED
  BY <1>1, <1>4, <1>5

\* The values that a loop goes through.
Runs(f, step, b, q, n) ==
    f[0] = b /\ \A k \in 1..n : f[k] = step[<<f[k - 1], q[k]>>]

RunsThrough(V, step, b, q) ==
    \E f \in [0..Len(q) -> V] : Runs(f, step, b, q, Len(q)) /\ Along(step, b, q) = f[Len(q)]

\* There are such values, and the last of them is what the loop gives.
LEMMA AlongSteps ==
    ASSUME NEW V, NEW T, NEW step \in [V \X T -> V], NEW b \in V, NEW q \in Seq(T)
    PROVE  RunsThrough(V, step, b, q)
<1> DEFINE n == Len(q)
           g == [x \in V \X (1..n) |-> step[<<x[1], q[x[2]]>>]]
           Body(it) == [s \in SUBSET (DOMAIN q) |->
                           IF s = {} THEN b ELSE step[<<it[s \ {Max(s)}], q[Max(s)]>>]]
           F == CHOOSE it : it = Body(it)
<1>1. n \in Nat /\ DOMAIN q = 1..n /\ \A i \in 1..n : q[i] \in T
  OBVIOUS
<1>2. Along(step, b, q) = F[DOMAIN q]
  BY DEF Along, FoldLeft, MapThenFoldSet
<1>4. ASSUME NEW v \in V, NEW i \in 1..n PROVE step[<<v, q[i]>>] \in V
  BY <1>1
<1>5. g \in [V \X (1..n) -> V]
  BY <1>4
<1>6. PICK it \in [SUBSET (1..n) -> V] : FoldOf(it, n, b, g)
  <2> HIDE DEF g, n
  <2> QED
    BY <1>1, <1>5, FoldExists
<1>7. \A s \in SUBSET (1..n) : s # {} => Max(s) \in 1..n /\ s \ {Max(s)} \in SUBSET (1..n)
  <2> SUFFICES ASSUME NEW s \in SUBSET (1..n), s # {}
               PROVE  Max(s) \in s
    OBVIOUS
  <2>1. s \in SUBSET (0..n)
    BY <1>1
  <2> HIDE DEF n
  <2> QED
    BY <1>1, <2>1, Greatest
<1>8. it = Body(it)
  <2>1. \A s \in SUBSET (1..n) : it[s] = IF s = {} THEN b ELSE g[<<it[s \ {Max(s)}], Max(s)>>]
    BY <1>6 DEF FoldOf
  <2>2. ASSUME NEW s \in SUBSET (1..n), s # {}
        PROVE  g[<<it[s \ {Max(s)}], Max(s)>>] = step[<<it[s \ {Max(s)}], q[Max(s)]>>]
    BY <1>6, <1>7, <2>2
  <2> HIDE DEF g
  <2> QED
    BY <1>1, <1>6, <2>1, <2>2
<1>9. F = Body(F)
  BY <1>8
<1>10. F[{}] = b
  BY <1>1, <1>9
<1>11. ASSUME NEW k \in 1..n PROVE F[1..k] = step[<<F[1..(k - 1)], q[k]>>]
  <2>1. 1..k \in SUBSET (1..n) /\ 1..k # {} /\ Max(1..k) = k /\ (1..k) \ {k} = 1..(k - 1)
    BY <1>1, Intervals
  <2>2. F[1..k] = Body(F)[1..k]
    BY <1>9
  <2>3. Body(F)[1..k] = step[<<F[(1..k) \ {Max(1..k)}], q[Max(1..k)]>>]
    BY <1>1, <2>1
  <2> QED
    BY <2>1, <2>2, <2>3
<1>12. \A k \in 0..n : F[1..k] \in V
  <2> DEFINE S == {k \in 0..n : F[1..k] \in V}
  <2> HIDE DEF n, F
  <2>1. 0 \in S
    <3>1. 1..0 = {} /\ 0 \in 0..n
      BY <1>1
    <3> QED
      BY <1>10, <3>1
  <2>2. ASSUME NEW k \in 0..(n - 1), k \in S PROVE k + 1 \in S
    <3>1. k + 1 \in 1..n /\ (k + 1) - 1 = k /\ k + 1 \in 0..n
      BY <1>1
    <3>2. F[1..(k + 1)] = step[<<F[1..k], q[k + 1]>>]
      BY <1>11, <3>1
    <3> QED
      BY <1>4, <2>2, <3>1, <3>2
  <2> HIDE DEF S
  <2>3. \A k \in 0..n : k \in S
    BY <1>1, <2>1, <2>2, UpTo
  <2> QED
    BY <2>3 DEF S
<1> DEFINE f == [k \in 0..n |-> F[1..k]]
<1> HIDE DEF n, F
<1>13. f \in [0..n -> V] /\ f[0] = b
  <2>1. 1..0 = {} /\ 0 \in 0..n
    BY <1>1
  <2> QED
    BY <1>10, <1>12, <2>1
<1>14. \A k \in 1..n : f[k] = step[<<f[k - 1], q[k]>>]
  <2> SUFFICES ASSUME NEW k \in 1..n PROVE f[k] = step[<<f[k - 1], q[k]>>]
    OBVIOUS
  <2>1. k \in 0..n /\ k - 1 \in 0..n
    BY <1>1
  <2> QED
    BY <1>11, <2>1
<1>15. Along(step, b, q) = f[n]
  BY <1>1, <1>2
<1> HIDE DEF f
<1>16. Runs(f, step, b, q, n)
  BY <1>13, <1>14 DEF Runs
<1>17. \E h \in [0..n -> V] : Runs(h, step, b, q, n) /\ Along(step, b, q) = h[n]
  BY <1>13, <1>15, <1>16
<1> QED
  BY <1>17 DEF n, RunsThrough

\* What holds at first, and of each value if it held of the one before, holds at the end.
Keeps(V, step, q, Holds) ==
    \A k \in 1..Len(q), v \in V :
        <<k - 1, v>> \in Holds => <<k, step[<<v, q[k]>>]>> \in Holds
EndsIn(V, v, q, Holds) == v \in V /\ <<Len(q), v>> \in Holds

\* What the steps of a loop keep true of the values so far is true of what it gives.
LEMMA LoopInvariant ==
    ASSUME NEW V, NEW T, NEW step \in [V \X T -> V], NEW b \in V, NEW q \in Seq(T),
           NEW Holds, <<0, b>> \in Holds, Keeps(V, step, q, Holds)
    PROVE  EndsIn(V, Along(step, b, q), q, Holds)
<1>1. Len(q) \in Nat
  OBVIOUS
<1>2. PICK f \in [0..Len(q) -> V] : Runs(f, step, b, q, Len(q)) /\ Along(step, b, q) = f[Len(q)]
  <2>1. RunsThrough(V, step, b, q)
    BY ONLY step \in [V \X T -> V], b \in V, q \in Seq(T), AlongSteps, Zenon
  <2> QED
    BY <2>1 DEF RunsThrough
<1> DEFINE n == Len(q)
           S == {k \in 0..n : <<k, f[k]>> \in Holds}
<1>3. 0 \in S
  BY <1>1, <1>2 DEF Runs
<1>4. ASSUME NEW k \in 0..(n - 1), k \in S PROVE k + 1 \in S
  <2>1. k + 1 \in 1..n /\ (k + 1) - 1 = k /\ k \in 0..n /\ k + 1 \in 0..n
    BY <1>1
  <2>2. f[k] \in V /\ <<k, f[k]>> \in Holds
    BY <1>2, <1>4, <2>1
  <2>3. f[k + 1] = step[<<f[k], q[k + 1]>>]
    BY <1>2, <2>1 DEF Runs
  <2> QED
    BY <2>1, <2>2, <2>3 DEF Keeps
<1>5. n \in S
  <2> HIDE DEF S, n
  <2>1. n \in Nat
    BY <1>1 DEF n
  <2>2. \A k \in 0..n : k \in S
    BY <1>3, <1>4, <2>1, UpTo
  <2> QED
    BY <2>1, <2>2
<1> QED
  BY <1>1, <1>2, <1>5 DEF EndsIn

\* A function of the numbers that is defined from its value before.
Iterates(h, b, g) == h = [n \in Nat |-> IF n = 0 THEN b ELSE g[h[n - 1]]]

\* There is one, for any step.
LEMMA IterationExists ==
    ASSUME NEW V, NEW b \in V, NEW g \in [V -> V]
    PROVE  \E h \in [Nat -> V] : Iterates(h, b, g)
<1> DEFINE Until(f, n) == f[0] = b /\ \A k \in 1..n : f[k] = g[f[k - 1]]
           S == {n \in Nat : \E f \in [0..n -> V] : Until(f, n)}
<1>1. 0 \in S
  <2>1. [k \in 0..0 |-> b] \in [0..0 -> V] /\ Until([k \in 0..0 |-> b], 0)
    OBVIOUS
  <2> QED
    BY <2>1
<1>2. ASSUME NEW n \in Nat, n \in S PROVE n + 1 \in S
  <2>1. PICK f \in [0..n -> V] : Until(f, n)
    BY <1>2
  <2> DEFINE e == [k \in 0..(n + 1) |-> IF k = n + 1 THEN g[f[n]] ELSE f[k]]
  <2>2. e \in [0..(n + 1) -> V] /\ e[0] = b
    BY <2>1
  <2>3. ASSUME NEW k \in 1..(n + 1) PROVE e[k] = g[e[k - 1]]
    <3>1. CASE k = n + 1
      BY <3>1
    <3>2. CASE k # n + 1
      <4>1. k \in 1..n /\ k \in 0..(n + 1) /\ k - 1 \in 0..(n + 1) /\ k - 1 # n + 1
        BY <3>2
      <4> QED
        BY <2>1, <3>2, <4>1
    <3> QED
      BY <3>1, <3>2
  <2> HIDE DEF e
  <2> QED
    BY <2>2, <2>3
<1>3. \A n \in Nat : n \in S
  <2> HIDE DEF S
  <2> SUFFICES ASSUME NEW n \in Nat PROVE n \in S
    OBVIOUS
  <2>1. \A k \in 0..(n - 1) : k \in S => k + 1 \in S
    BY <1>2
  <2> QED
    BY <1>1, <2>1, UpTo
<1>4. \A n \in Nat : \E f \in [0..n -> V] : Until(f, n)
  BY <1>3
<1>5. ASSUME NEW m \in Nat, NEW n \in Nat, m <= n, NEW e \in [0..m -> V], NEW f \in [0..n -> V],
             Until(e, m), Until(f, n)
      PROVE  e[m] = f[m]
  <2> DEFINE R == {k \in 0..m : e[k] = f[k]}
  <2>1. 0 \in R
    BY <1>5
  <2>2. ASSUME NEW k \in 0..(m - 1), k \in R PROVE k + 1 \in R
    <3>1. k + 1 \in 1..m /\ k + 1 \in 1..n /\ (k + 1) - 1 = k
      BY <1>5
    <3> QED
      BY <1>5, <2>2, <3>1
  <2>3. m \in R
    <3> HIDE DEF R
    <3>1. \A k \in 0..m : k \in R
      BY <2>1, <2>2, UpTo
    <3> QED
      BY <3>1
  <2> QED
    BY <2>3
<1> DEFINE F(n) == CHOOSE f \in [0..n -> V] : Until(f, n)
           h == [n \in Nat |-> F(n)[n]]
<1>6. \A n \in Nat : F(n) \in [0..n -> V] /\ Until(F(n), n)
  BY <1>4
<1> HIDE DEF F
<1>7. h \in [Nat -> V]
  BY <1>6
<1>8. ASSUME NEW n \in Nat PROVE h[n] = IF n = 0 THEN b ELSE g[h[n - 1]]
  <2>1. CASE n = 0
    BY <1>6, <2>1
  <2>2. CASE n # 0
    <3>1. n - 1 \in Nat /\ n - 1 <= n /\ n \in 1..n
      BY <2>2
    <3>2. F(n)[n] = g[F(n)[n - 1]]
      BY <1>6, <3>1
    <3>3. F(n - 1)[n - 1] = F(n)[n - 1]
      BY <1>5, <1>6, <3>1
    <3> QED
      BY <2>2, <3>1, <3>2, <3>3
  <2> QED
    BY <2>1, <2>2
<1> HIDE DEF h
<1>9. h = [n \in Nat |-> IF n = 0 THEN b ELSE g[h[n - 1]]]
  BY <1>7, <1>8
<1> QED
  BY <1>7, <1>9 DEF Iterates

-------------------------------------------------------------------------------
(* Lists of modules.                                                       *)

\* Lists of modules.
Lists == Seq(GraphModules)

\* What a list is: its positions, its elements, and what it contains.
LEMMA ListIs ==
    ASSUME NEW s \in Lists
    PROVE  /\ Len(s) \in Nat /\ DOMAIN s = 1..Len(s)
           /\ \A i \in 1..Len(s) : s[i] \in GraphModules
           /\ ToSet(s) = {s[i] : i \in 1..Len(s)} /\ ToSet(s) \in SUBSET GraphModules
           /\ \A x : Contains(s, x) <=> x \in ToSet(s)
BY DEF Lists, ToSet, Contains

\* The empty list.
LEMMA NoneIs == <<>> \in Lists /\ ToSet(<<>>) = {} /\ IsInjective(<<>>)
BY DEF Lists, ToSet, IsInjective

\* A list with one more at its end, and one that notes only what is new (contains before push).
LEMMA AppendIs ==
    ASSUME NEW s \in Lists, NEW x \in GraphModules
    PROVE  /\ Append(s, x) \in Lists /\ ToSet(Append(s, x)) = ToSet(s) \cup {x}
           /\ IsInjective(s) /\ x \notin ToSet(s) => IsInjective(Append(s, x))
<1>1. /\ Append(s, x) \in Lists /\ Len(Append(s, x)) = Len(s) + 1
      /\ \A i \in 1..Len(s) : Append(s, x)[i] = s[i]
      /\ Append(s, x)[Len(s) + 1] = x /\ Len(s) \in Nat
  BY DEF Lists
<1>2. \A i \in 1..(Len(s) + 1) : i \in 1..Len(s) \/ i = Len(s) + 1
  BY <1>1
<1> DEFINE q == Append(s, x)
           n == Len(s)
<1>3. /\ \A i \in 1..n : q[i] = s[i] /\ i \in 1..(n + 1)
      /\ q[n + 1] = x /\ n + 1 \in 1..(n + 1)
      /\ \A i \in 1..(n + 1) : i \in 1..n \/ i = n + 1
  BY <1>1, <1>2
<1>4. ToSet(q) = {q[i] : i \in 1..(n + 1)} /\ ToSet(s) = {s[i] : i \in 1..n}
      /\ DOMAIN q = 1..(n + 1) /\ DOMAIN s = 1..n
  BY <1>1, ListIs
<1> HIDE DEF q, n
<1>5. ToSet(q) = ToSet(s) \cup {x}
  BY <1>3, <1>4
<1>6. ASSUME IsInjective(s), x \notin ToSet(s) PROVE IsInjective(q)
  <2> SUFFICES ASSUME NEW i \in 1..(n + 1), NEW j \in 1..(n + 1), q[i] = q[j] PROVE i = j
    BY <1>4 DEF IsInjective
  <2>1. CASE i \in 1..n /\ j \in 1..n
    <3>1. s[i] = s[j]
      BY <1>3, <2>1
    <3> QED
      BY <1>4, <1>6, <2>1, <3>1 DEF IsInjective
  <2>2. CASE i \notin 1..n \/ j \notin 1..n
    <3>1. \A k \in 1..n : q[k] # x
      BY <1>3, <1>4, <1>6
    <3> QED
      BY <1>3, <2>2, <3>1
  <2> QED
    BY <2>1, <2>2
<1> QED
  BY <1>1, <1>5, <1>6 DEF q

\* What With notes.
LEMMA WithIs ==
    ASSUME NEW s \in Lists, NEW x \in GraphModules
    PROVE  /\ With(s, x) \in Lists /\ ToSet(With(s, x)) = ToSet(s) \cup {x}
           /\ IsInjective(s) => IsInjective(With(s, x))
<1>1. Contains(s, x) <=> x \in ToSet(s)
  BY ListIs
<1> QED
  BY <1>1, AppendIs DEF With

\* The elements up to a position.
Upto(s, k) == {s[i] : i \in 1..k}

\* Up to nothing there is nothing.
LEMMA UptoNone == \A s : Upto(s, 0) = {}
<1>1. 1..0 = {}
  OBVIOUS
<1> QED
  BY <1>1 DEF Upto

\* One position further there is one element more.
LEMMA UptoNext ==
    ASSUME NEW s, NEW k \in Nat, k > 0
    PROVE  Upto(s, k) = Upto(s, k - 1) \cup {s[k]}
<1>1. /\ \A i \in 1..k : i \in 1..(k - 1) \/ i = k
      /\ \A i \in 1..(k - 1) : i \in 1..k
      /\ k \in 1..k
  OBVIOUS
<1> QED
  BY <1>1 DEF Upto

\* retain and filter keep what they are told to, once each if it was there once.
LEMMA OnlyIs ==
    ASSUME NEW s \in Lists, NEW S
    PROVE  /\ Only(s, S) \in Lists /\ ToSet(Only(s, S)) = ToSet(s) \cap S
           /\ IsInjective(s) => IsInjective(Only(s, S))
<1> DEFINE step == Keeping(S)
           Holds == {x \in Nat \X Lists :
                        /\ ToSet(x[2]) = Upto(s, x[1]) \cap S
                        /\ IsInjective(s) => IsInjective(x[2])}
<1>1. step \in [Lists \X GraphModules -> Lists]
  BY AppendIs DEF Keeping, Lists
<1>2. <<0, <<>>>> \in Holds
  <2>1. ToSet(<<>>) = {} /\ <<>> \in Lists /\ IsInjective(<<>>) /\ Upto(s, 0) = {}
    BY NoneIs, UptoNone
  <2> QED
    BY <2>1
<1>3. Keeps(Lists, step, s, Holds)
  <2> SUFFICES ASSUME NEW k \in 1..Len(s), NEW t \in Lists, <<k - 1, t>> \in Holds
               PROVE  <<k, step[<<t, s[k]>>]>> \in Holds
    BY DEF Keeps
  <2>1. k \in Nat /\ k > 0 /\ k - 1 \in Nat /\ s[k] \in GraphModules
    BY ListIs
  <2>2. ToSet(t) = Upto(s, k - 1) \cap S /\ (IsInjective(s) => IsInjective(t))
    OBVIOUS
  <2>3. Upto(s, k) = Upto(s, k - 1) \cup {s[k]}
    BY <2>1, UptoNext
  <2>4. step[<<t, s[k]>>] = IF s[k] \in S THEN Append(t, s[k]) ELSE t
    BY <2>1 DEF Keeping, Lists
  <2>5. IsInjective(s) => s[k] \notin Upto(s, k - 1)
    <3>1. \A i \in 1..(k - 1) : i \in 1..Len(s) /\ i # k
      BY ListIs
    <3> QED
      BY <3>1, ListIs DEF IsInjective, Upto
  <2> DEFINE next == step[<<t, s[k]>>]
  <2>6. next \in Lists /\ ToSet(next) = Upto(s, k) \cap S /\ (IsInjective(s) => IsInjective(next))
    <3> HIDE DEF step
    <3>1. CASE s[k] \in S
      <4>1. next = Append(t, s[k])
        BY <2>4, <3>1
      <4>2. ToSet(next) = ToSet(t) \cup {s[k]} /\ next \in Lists
        BY <2>1, <4>1, AppendIs
      <4>3. IsInjective(t) /\ s[k] \notin ToSet(t) => IsInjective(next)
        BY <2>1, <4>1, AppendIs
      <4> HIDE DEF next
      <4> QED
        BY <2>2, <2>3, <2>5, <3>1, <4>2, <4>3
    <3>2. CASE s[k] \notin S
      <4>1. next = t
        BY <2>4, <3>2
      <4> HIDE DEF next
      <4> QED
        BY <2>2, <2>3, <3>2, <4>1
    <3> QED
      BY <3>1, <3>2
  <2> HIDE DEF next, step
  <2> QED
    BY <2>1, <2>6 DEF next
<1>4. EndsIn(Lists, Along(step, <<>>, s), s, Holds)
  <2>1. s \in Seq(GraphModules) /\ <<>> \in Lists
    BY NoneIs DEF Lists
  <2> HIDE DEF step, Holds
  <2> QED
    BY ONLY <1>1, <1>2, <1>3, <2>1, LoopInvariant, Zenon
<1>5. Upto(s, Len(s)) = ToSet(s)
  BY ListIs DEF Upto
<1> QED
  BY <1>4, <1>5 DEF EndsIn, Only

-------------------------------------------------------------------------------
(* The maps of the dependency graph.                                       *)

\* Lists of different modules for some of the modules, from among them.
Links(e, D) ==
    /\ D \in SUBSET GraphModules /\ DOMAIN e = D /\ e \in [D -> Lists]
    /\ \A m \in D : IsInjective(e[m]) /\ ToSet(e[m]) \subseteq D

Mirrors(e, r, D) ==
    /\ Links(e, D) /\ Links(r, D)
    /\ \A m, d \in D : d \in ToSet(e[m]) <=> m \in ToSet(r[d])

\* What the resolver's lookup holds.
LookupTypes == found \in SUBSET GraphModules /\ declares \in [GraphModules -> Seq(Dependencies)]

\* The inductive invariant: all walks rest on maps that mirror each other, whose lists name
\* only modules that the graph has.
DependencyInv == Mirrors(edges, reverseEdges, DOMAIN edges) /\ LookupTypes

\* It is what EdgesMirror says.
LEMMA MirrorsHold == DependencyInv => EdgesMirror
<1> SUFFICES ASSUME DependencyInv PROVE EdgesMirror
  OBVIOUS
<1>1. /\ DOMAIN edges = DOMAIN reverseEdges
      /\ \A m \in DOMAIN edges : /\ edges[m] \in Lists /\ reverseEdges[m] \in Lists
                                 /\ IsInjective(edges[m]) /\ IsInjective(reverseEdges[m])
                                 /\ ToSet(edges[m]) \subseteq DOMAIN edges
      /\ \A m, d \in DOMAIN edges : d \in ToSet(edges[m]) <=> m \in ToSet(reverseEdges[d])
  BY DEF DependencyInv, Mirrors, Links
<1>2. \A m \in DOMAIN edges : \A d : Contains(edges[m], d) <=> d \in ToSet(edges[m])
  BY <1>1, ListIs
<1>3. \A m \in DOMAIN edges : \A d : Contains(reverseEdges[m], d) <=> d \in ToSet(reverseEdges[m])
  BY <1>1, ListIs
<1> QED
  BY <1>1, <1>2, <1>3 DEF EdgesMirror

\* Empty maps mirror each other.
LEMMA EmptyMirrors == Mirrors([m \in {} |-> <<>>], [m \in {} |-> <<>>], {})
BY DEF Mirrors, Links

\* or_default for some modules, in both maps.
LEMMA EnsureMirrors ==
    ASSUME NEW e, NEW r, NEW D, Mirrors(e, r, D), NEW N \in SUBSET GraphModules
    PROVE  Mirrors(Ensure(e, N), Ensure(r, N), D \cup N)
<1> DEFINE F == D \cup N
<1>1. ASSUME NEW f, Links(f, D)
      PROVE  /\ Links(Ensure(f, N), F)
             /\ \A m \in F : ToSet(Ensure(f, N)[m]) = IF m \in D THEN ToSet(f[m]) ELSE {}
  <2>1. Ensure(f, N) = [m \in F |-> IF m \in D THEN f[m] ELSE <<>>]
    BY <1>1 DEF Ensure, Links
  <2> DEFINE h == [m \in F |-> IF m \in D THEN f[m] ELSE <<>>]
  <2>2. \A m \in F : h[m] = IF m \in D THEN f[m] ELSE <<>>
    OBVIOUS
  <2>3. h \in [F -> Lists] /\ DOMAIN h = F /\ F \in SUBSET GraphModules
    BY <1>1, NoneIs DEF Links
  <2> HIDE DEF h
  <2>4. \A m \in F : IsInjective(h[m]) /\ ToSet(h[m]) = (IF m \in D THEN ToSet(f[m]) ELSE {})
    BY <1>1, <2>2, NoneIs DEF Links
  <2> QED
    BY <1>1, <2>1, <2>3, <2>4 DEF Links, h
<1>2. Links(e, D) /\ Links(r, D) /\ \A m, d \in D : d \in ToSet(e[m]) <=> m \in ToSet(r[d])
  BY DEF Mirrors
<1>3. \A m \in D : ToSet(e[m]) \subseteq D /\ ToSet(r[m]) \subseteq D
  BY <1>2 DEF Links
<1>4. \A m, d \in F : d \in ToSet(Ensure(e, N)[m]) <=> m \in ToSet(Ensure(r, N)[d])
  BY <1>1, <1>2, <1>3
<1>5. Links(Ensure(e, N), F) /\ Links(Ensure(r, N), F)
  BY <1>1, <1>2
<1> HIDE DEF F
<1> QED
  BY <1>4, <1>5 DEF Mirrors, F

\* One edge more, in both directions.
LEMMA LinkMirrors ==
    ASSUME NEW e, NEW r, NEW D, Mirrors(e, r, D), NEW m \in D, NEW d \in D
    PROVE  Mirrors([e EXCEPT ![m] = With(@, d)], [r EXCEPT ![d] = With(@, m)], D)
<1>1. ASSUME NEW f, Links(f, D), NEW x \in D, NEW y \in D
      PROVE  LET h == [f EXCEPT ![x] = With(@, y)]
             IN  /\ Links(h, D)
                 /\ \A z \in D : ToSet(h[z]) = IF z = x THEN ToSet(f[z]) \cup {y} ELSE ToSet(f[z])
  <2> DEFINE h == [f EXCEPT ![x] = With(@, y)]
  <2>1. /\ f \in [D -> Lists] /\ y \in GraphModules /\ f[x] \in Lists
        /\ \A z \in D : f[z] \in Lists /\ IsInjective(f[z]) /\ ToSet(f[z]) \subseteq D
    BY <1>1 DEF Links
  <2>2. /\ With(f[x], y) \in Lists /\ ToSet(With(f[x], y)) = ToSet(f[x]) \cup {y}
        /\ IsInjective(f[x]) => IsInjective(With(f[x], y))
    BY <2>1, WithIs
  <2>3. h \in [D -> Lists] /\ \A z \in D : h[z] = IF z = x THEN With(f[x], y) ELSE f[z]
    BY <2>1, <2>2
  <2>4. DOMAIN h = D
    BY <2>3
  <2> HIDE DEF h
  <2>5. \A z \in D : IsInjective(h[z])
    BY <2>1, <2>2, <2>3
  <2>6. \A z \in D : ToSet(h[z]) = IF z = x THEN ToSet(f[z]) \cup {y} ELSE ToSet(f[z])
    BY <2>2, <2>3
  <2>7. \A z \in D : ToSet(h[z]) \subseteq D
    BY <1>1, <2>1, <2>6
  <2>8. Links(h, D)
    BY <1>1, <2>3, <2>4, <2>5, <2>7 DEF Links
  <2> QED
    BY <2>6, <2>8 DEF h
<1>2. Links(e, D) /\ Links(r, D) /\ \A x, y \in D : y \in ToSet(e[x]) <=> x \in ToSet(r[y])
  BY DEF Mirrors
<1> DEFINE ee == [e EXCEPT ![m] = With(@, d)]
           rr == [r EXCEPT ![d] = With(@, m)]
<1>3. Links(ee, D) /\ \A z \in D : ToSet(ee[z]) = IF z = m THEN ToSet(e[z]) \cup {d} ELSE ToSet(e[z])
  BY <1>1, <1>2
<1>4. Links(rr, D) /\ \A z \in D : ToSet(rr[z]) = IF z = d THEN ToSet(r[z]) \cup {m} ELSE ToSet(r[z])
  BY <1>1, <1>2
<1> HIDE DEF ee, rr
<1>5. ASSUME NEW x \in D, NEW y \in D PROVE y \in ToSet(ee[x]) <=> x \in ToSet(rr[y])
  <2>1. ToSet(ee[x]) = IF x = m THEN ToSet(e[x]) \cup {d} ELSE ToSet(e[x])
    BY <1>3
  <2>2. ToSet(rr[y]) = IF y = d THEN ToSet(r[y]) \cup {m} ELSE ToSet(r[y])
    BY <1>4
  <2>3. y \in ToSet(e[x]) <=> x \in ToSet(r[y])
    BY <1>2
  <2> QED
    BY <2>1, <2>2, <2>3
<1> QED
  BY <1>3, <1>4, <1>5 DEF Mirrors, ee, rr

\* Fewer edges, the same ones in both directions, and perhaps fewer modules.
Left(ee, e, F, gone) ==
    /\ DOMAIN ee = F /\ ee \in [F -> Lists]
    /\ \A x \in F : /\ IsInjective(ee[x]) /\ ToSet(ee[x]) \subseteq F
                    /\ \A y \in F : y \in ToSet(ee[x]) <=> y \in ToSet(e[x]) /\ <<x, y>> \notin gone

\* Maps that lose the same edges go on mirroring each other.
LEMMA FewerMirror ==
    ASSUME NEW e, NEW r, NEW D, Mirrors(e, r, D), NEW F \in SUBSET D,
           NEW ee, NEW rr, NEW gone, NEW back, Left(ee, e, F, gone), Left(rr, r, F, back),
           \A x, y \in F : <<x, y>> \in gone <=> <<y, x>> \in back
    PROVE  Mirrors(ee, rr, F)
<1>1. D \in SUBSET GraphModules /\ \A x, y \in D : y \in ToSet(e[x]) <=> x \in ToSet(r[y])
  BY DEF Mirrors, Links
<1>2. \A x, y \in F : y \in ToSet(ee[x]) <=> x \in ToSet(rr[y])
  BY <1>1 DEF Left
<1>3. F \in SUBSET GraphModules
  BY <1>1
<1>4. Links(ee, F) /\ Links(rr, F)
  BY <1>3 DEF Links, Left
<1> QED
  BY <1>2, <1>4 DEF Mirrors

\* retain without one module.
LEMMA WithoutIs ==
    ASSUME NEW s \in Lists, NEW m
    PROVE  /\ Without(s, m) \in Lists /\ ToSet(Without(s, m)) = ToSet(s) \ {m}
           /\ IsInjective(s) => IsInjective(Without(s, m))
<1>1. ToSet(s) \subseteq GraphModules
  BY ListIs
<1>2. /\ Only(s, GraphModules \ {m}) \in Lists
      /\ ToSet(Only(s, GraphModules \ {m})) = ToSet(s) \cap (GraphModules \ {m})
      /\ IsInjective(s) => IsInjective(Only(s, GraphModules \ {m}))
  BY OnlyIs
<1> QED
  BY <1>1, <1>2 DEF Without

\* What remove_dependency leaves of one direction, and what remove_module does.
LEMMA OneLeft ==
    ASSUME NEW D \in SUBSET GraphModules, NEW f \in [D -> Lists],
           \A x \in D : IsInjective(f[x]) /\ ToSet(f[x]) \subseteq D,
           NEW m, NEW d, NEW h, h = [y \in D |-> IF y = m THEN Without(f[y], d) ELSE f[y]]
    PROVE  Left(h, f, D, {<<m, d>>})
<1>1. ASSUME NEW y \in D
      PROVE  /\ h[y] \in Lists /\ IsInjective(h[y])
             /\ ToSet(h[y]) = IF y = m THEN ToSet(f[y]) \ {d} ELSE ToSet(f[y])
  <2>1. f[y] \in Lists /\ IsInjective(f[y])
    OBVIOUS
  <2>2. /\ Without(f[y], d) \in Lists /\ ToSet(Without(f[y], d)) = ToSet(f[y]) \ {d}
        /\ IsInjective(Without(f[y], d))
    BY <2>1, WithoutIs
  <2>3. CASE y = m
    <3>1. h[y] = Without(f[y], d)
      BY <2>3
    <3> QED
      BY <2>2, <2>3, <3>1
  <2>4. CASE y # m
    <3>1. h[y] = f[y]
      BY <2>4
    <3> QED
      BY <2>1, <2>4, <3>1
  <2> QED
    BY <2>3, <2>4
<1>2. h \in [D -> Lists] /\ DOMAIN h = D
  BY <1>1
<1>3. \A y, z \in D : <<y, z>> \notin {<<m, d>>} <=> y # m \/ z # d
  OBVIOUS
<1> QED
  BY <1>1, <1>2, <1>3 DEF Left

\* remove_module leaves neither the module nor an edge to it, in either direction.
LEMMA AllLeft ==
    ASSUME NEW D \in SUBSET GraphModules, NEW f \in [D -> Lists], NEW m,
           \A x \in D : IsInjective(f[x]) /\ ToSet(f[x]) \subseteq D,
           NEW S, \A x \in D : x \notin S => m \notin ToSet(f[x]),
           NEW h, h = [y \in D \ {m} |-> IF y \in S THEN Without(f[y], m) ELSE f[y]]
    PROVE  Left(h, f, D \ {m}, {})
<1>1. ASSUME NEW y \in D \ {m}
      PROVE  h[y] \in Lists /\ IsInjective(h[y]) /\ ToSet(h[y]) = ToSet(f[y]) \ {m}
  <2>1. f[y] \in Lists /\ IsInjective(f[y])
    OBVIOUS
  <2>2. /\ Without(f[y], m) \in Lists /\ ToSet(Without(f[y], m)) = ToSet(f[y]) \ {m}
        /\ IsInjective(Without(f[y], m))
    BY <2>1, WithoutIs
  <2>3. CASE y \in S
    <3>1. h[y] = Without(f[y], m)
      BY <2>3
    <3> QED
      BY <2>2, <3>1
  <2>4. CASE y \notin S
    <3>1. h[y] = f[y] /\ m \notin ToSet(f[y])
      BY <2>4
    <3> QED
      BY <2>1, <3>1
  <2> QED
    BY <2>3, <2>4
<1>2. h \in [D \ {m} -> Lists] /\ DOMAIN h = D \ {m}
  BY <1>1
<1> QED
  BY <1>1, <1>2 DEF Left

\* A new graph, and an empty registry.
LEMMA InitDependencyInv == DependencyInit => DependencyInv
<1> SUFFICES ASSUME DependencyInit PROVE DependencyInv
  OBVIOUS
<1>1. DOMAIN edges = {}
  BY DEF DependencyInit
<1>2. Mirrors(edges, reverseEdges, DOMAIN edges)
  BY <1>1, EmptyMirrors DEF DependencyInit
<1>3. LookupTypes
  BY DEF DependencyInit, LookupTypes
<1> QED
  BY <1>2, <1>3 DEF DependencyInv

\* Every operation of the graph, and of the registry the lookup reads, keeps the invariant.
LEMMA NextDependencyInv == DependencyInv /\ [DependencyNext]_dependencyVars => DependencyInv'
<1> SUFFICES ASSUME DependencyInv, [DependencyNext]_dependencyVars PROVE DependencyInv'
  OBVIOUS
<1> DEFINE D == DOMAIN edges
<1>1. /\ Mirrors(edges, reverseEdges, D) /\ LookupTypes /\ D \in SUBSET GraphModules
      /\ DOMAIN reverseEdges = D /\ edges \in [D -> Lists] /\ reverseEdges \in [D -> Lists]
      /\ \A m \in D : /\ IsInjective(edges[m]) /\ ToSet(edges[m]) \subseteq D
                      /\ IsInjective(reverseEdges[m]) /\ ToSet(reverseEdges[m]) \subseteq D
      /\ \A m, d \in D : d \in ToSet(edges[m]) <=> m \in ToSet(reverseEdges[d])
  BY DEF DependencyInv, Mirrors, Links
<1>2. ASSUME NEW m \in GraphModules, AddModule(m) PROVE DependencyInv'
  <2>1. Mirrors(edges', reverseEdges', D \cup {m}) /\ LookupTypes'
    BY <1>1, <1>2, EnsureMirrors DEF AddModule, lookupVars, LookupTypes
  <2>2. DOMAIN edges' = D \cup {m}
    BY <2>1 DEF Mirrors, Links
  <2> QED
    BY <2>1, <2>2 DEF DependencyInv
<1>3. ASSUME NEW x \in MayDepend, AddDependency(x[1], x[2]) PROVE DependencyInv'
  <2> DEFINE N == {x[1], x[2]}
             e == Ensure(edges, N)
             r == Ensure(reverseEdges, N)
             F == D \cup N
  <2>1. N \in SUBSET GraphModules
    BY DependencyGraphAssumption DEF DependencyGraphAssumption
  <2>2. Mirrors(e, r, F)
    <3> HIDE DEF N
    <3> QED
      BY <1>1, <2>1, EnsureMirrors
  <2>3. edges' = [e EXCEPT ![x[1]] = With(@, x[2])] /\ reverseEdges' = [r EXCEPT ![x[2]] = With(@, x[1])]
    BY <1>3 DEF AddDependency
  <2>4. x[1] \in F /\ x[2] \in F
    OBVIOUS
  <2> HIDE DEF e, r, F
  <2>5. Mirrors(edges', reverseEdges', F)
    <3>1. Mirrors([e EXCEPT ![x[1]] = With(@, x[2])], [r EXCEPT ![x[2]] = With(@, x[1])], F)
      BY ONLY <2>2, <2>4, LinkMirrors, Zenon
    <3> QED
      BY ONLY <2>3, <3>1, Zenon
  <2>7. LookupTypes'
    BY <1>1, <1>3 DEF AddDependency, lookupVars, LookupTypes
  <2>6. DOMAIN edges' = F
    BY <2>5 DEF Mirrors, Links
  <2> QED
    BY <2>5, <2>6, <2>7 DEF DependencyInv
<1>4. ASSUME NEW x \in MayDepend, RemoveDependency(x[1], x[2]) PROVE DependencyInv'
  <2>1. PICK e, r : /\ e = [y \in D |-> IF y = x[1] THEN Without(edges[y], x[2]) ELSE edges[y]]
                    /\ r = [y \in D |-> IF y = x[2] THEN Without(reverseEdges[y], x[1]) ELSE reverseEdges[y]]
                    /\ edges' = e /\ reverseEdges' = r
    BY <1>1, <1>4 DEF RemoveDependency
  <2>2. Left(e, edges, D, {<<x[1], x[2]>>})
    <3>1. e = [y \in D |-> IF y = x[1] THEN Without(edges[y], x[2]) ELSE edges[y]]
      BY <2>1
    <3> QED
      BY <1>1, <3>1, OneLeft
  <2>3. Left(r, reverseEdges, D, {<<x[2], x[1]>>})
    <3>1. r = [y \in D |-> IF y = x[2] THEN Without(reverseEdges[y], x[1]) ELSE reverseEdges[y]]
      BY <2>1
    <3> QED
      BY <1>1, <3>1, OneLeft
  <2>4. \A y, z \in D : <<y, z>> \in {<<x[1], x[2]>>} <=> <<z, y>> \in {<<x[2], x[1]>>}
    OBVIOUS
  <2>5. Mirrors(e, r, D)
    <3>1. D \in SUBSET D
      OBVIOUS
    <3> HIDE DEF D
    <3> QED
      BY <1>1, <2>2, <2>3, <2>4, <3>1, FewerMirror
  <2>6. DOMAIN e = D
    BY <2>1
  <2>7. LookupTypes'
    BY <1>1, <1>4 DEF RemoveDependency, lookupVars, LookupTypes
  <2> QED
    BY <2>1, <2>5, <2>6, <2>7 DEF DependencyInv
<1>5. ASSUME NEW m \in GraphModules, RemoveModule(m) PROVE DependencyInv'
  <2> DEFINE F == D \ {m}
  <2>1. m \in D
    BY <1>1, <1>5 DEF RemoveModule
  <2>2. /\ \A y : Contains(reverseEdges[m], y) <=> y \in ToSet(reverseEdges[m])
        /\ \A y : Contains(edges[m], y) <=> y \in ToSet(edges[m])
    BY <1>1, <2>1, ListIs
  <2>3. PICK e, r : /\ e = [y \in F |-> IF y \in ToSet(reverseEdges[m]) THEN Without(edges[y], m) ELSE edges[y]]
                    /\ r = [y \in F |-> IF y \in ToSet(edges[m]) THEN Without(reverseEdges[y], m) ELSE reverseEdges[y]]
                    /\ edges' = e /\ reverseEdges' = r
    BY <1>1, <1>5, <2>2 DEF RemoveModule
  <2>4. \A y \in D : /\ y \notin ToSet(reverseEdges[m]) => m \notin ToSet(edges[y])
                     /\ y \notin ToSet(edges[m]) => m \notin ToSet(reverseEdges[y])
    BY <1>1, <2>1
  <2>5. Left(e, edges, D \ {m}, {})
    <3>1. PICK S : S = ToSet(reverseEdges[m])
      OBVIOUS
    <3>2. e = [y \in D \ {m} |-> IF y \in S THEN Without(edges[y], m) ELSE edges[y]]
      BY <2>3, <3>1
    <3>3. \A y \in D : y \notin S => m \notin ToSet(edges[y])
      BY <2>4, <3>1
    <3>4. D \in SUBSET GraphModules /\ edges \in [D -> Lists] /\ \A y \in D : IsInjective(edges[y]) /\ ToSet(edges[y]) \subseteq D
      BY <1>1
    <3> HIDE DEF D
    <3> QED
      BY ONLY <3>2, <3>3, <3>4, AllLeft, Zenon
  <2>6. Left(r, reverseEdges, D \ {m}, {})
    <3>1. PICK S : S = ToSet(edges[m])
      OBVIOUS
    <3>2. r = [y \in D \ {m} |-> IF y \in S THEN Without(reverseEdges[y], m) ELSE reverseEdges[y]]
      BY <2>3, <3>1
    <3>3. \A y \in D : y \notin S => m \notin ToSet(reverseEdges[y])
      BY <2>4, <3>1
    <3>4. D \in SUBSET GraphModules /\ reverseEdges \in [D -> Lists] /\ \A y \in D : IsInjective(reverseEdges[y]) /\ ToSet(reverseEdges[y]) \subseteq D
      BY <1>1
    <3> HIDE DEF D
    <3> QED
      BY ONLY <3>2, <3>3, <3>4, AllLeft, Zenon
  <2>7. Mirrors(e, r, F)
    <3>0. PICK gone : gone = {}
      OBVIOUS
    <3>1. F \in SUBSET D /\ \A y, z \in F : <<y, z>> \in gone <=> <<z, y>> \in gone
      BY <3>0
    <3>2. Mirrors(edges, reverseEdges, D) /\ Left(e, edges, F, gone) /\ Left(r, reverseEdges, F, gone)
      BY <1>1, <2>5, <2>6, <3>0
    <3> HIDE DEF D, F
    <3> QED
      BY ONLY <3>1, <3>2, FewerMirror, Zenon
  <2>8. DOMAIN e = F
    BY <2>3
  <2>9. LookupTypes'
    BY <1>1, <1>5 DEF RemoveModule, lookupVars, LookupTypes
  <2> QED
    BY <2>3, <2>7, <2>8, <2>9 DEF DependencyInv
<1>6. ASSUME ClearGraph PROVE DependencyInv'
  <2>1. DOMAIN edges' = {}
    BY <1>6 DEF ClearGraph
  <2> QED
    BY <1>1, <1>6, <2>1, EmptyMirrors DEF ClearGraph, DependencyInv, lookupVars, LookupTypes
<1>7. ASSUME NEW m \in GraphModules, Find(m) PROVE DependencyInv'
  <2>1. PICK ds \in Declarations[m] : declares' = [declares EXCEPT ![m] = ds]
    BY <1>7 DEF Find
  <2>2. ds \in Seq(Dependencies)
    BY DependencyGraphAssumption DEF DependencyGraphAssumption
  <2>3. LookupTypes'
    BY <1>1, <1>7, <2>1, <2>2 DEF Find, LookupTypes
  <2> QED
    BY <1>1, <1>7, <2>3 DEF Find, graphVars, DependencyInv
<1>8. ASSUME NEW m \in GraphModules, Lose(m) PROVE DependencyInv'
  <2>1. LookupTypes'
    BY <1>1, <1>8 DEF Lose, LookupTypes
  <2> QED
    BY <1>1, <1>8, <2>1 DEF Lose, graphVars, DependencyInv
<1>9. CASE UNCHANGED dependencyVars
  BY <1>1, <1>9 DEF dependencyVars, DependencyInv, LookupTypes
<1> QED
  BY <1>2, <1>3, <1>4, <1>5, <1>6, <1>7, <1>8, <1>9 DEF DependencyNext

-------------------------------------------------------------------------------
(* What can be reached.                                                    *)

\* The edges that leave S end in C.
Leads(rel, S, C) == \A e \in rel : e[1] \in S => e[2] \in C

\* Pairs of modules, and what one of them is paired with.
Relations == SUBSET (GraphModules \X GraphModules)
Succ(rel, x) == {y \in GraphModules : <<x, y>> \in rel}

\* What is reached is in every set that the edges do not lead out of; it can be reached over
\* one edge, one more edge, and from what was reached.
LEMMA ReachedLeast ==
    ASSUME NEW rel \in Relations, NEW m, NEW C \in SUBSET GraphModules, Leads(rel, C \cup {m}, C)
    PROVE  Reached(rel, m) \subseteq C
BY DEF Reached, Leads

\* What an edge leads to is reached.
LEMMA ReachedEdge ==
    ASSUME NEW rel \in Relations, NEW m, NEW d, <<m, d>> \in rel
    PROVE  d \in Reached(rel, m)
<1>1. d \in GraphModules
  BY DEF Relations
<1> QED
  BY <1>1 DEF Reached

\* What an edge leads to from what is reached is reached.
LEMMA ReachedOn ==
    ASSUME NEW rel \in Relations, NEW m, NEW x \in Reached(rel, m), NEW y, <<x, y>> \in rel
    PROVE  y \in Reached(rel, m)
<1>1. y \in GraphModules
  BY DEF Relations
<1> QED
  BY <1>1 DEF Reached

\* What is reached from what is reached is reached.
LEMMA ReachedThrough ==
    ASSUME NEW rel \in Relations, NEW m, NEW x \in Reached(rel, m)
    PROVE  Reached(rel, x) \subseteq Reached(rel, m)
<1>1. Reached(rel, m) \in SUBSET GraphModules
  BY DEF Reached
<1>2. Leads(rel, Reached(rel, m) \cup {x}, Reached(rel, m))
  <2> SUFFICES ASSUME NEW e \in rel, e[1] \in Reached(rel, m) \cup {x}
               PROVE  e[2] \in Reached(rel, m)
    BY DEF Leads
  <2>1. e[1] \in Reached(rel, m) /\ <<e[1], e[2]>> \in rel
    BY DEF Relations
  <2> QED
    BY <2>1, ReachedOn
<1> QED
  BY <1>1, <1>2, ReachedLeast

\* Along a way of modules that each have one of them next, one comes by again.
LEMMA Recurs ==
    ASSUME NEW rel \in Relations, NEW Z \in SUBSET GraphModules, Z # {},
           \A x \in Z : \E y \in Z : <<x, y>> \in rel
    PROVE  \E x \in Z : x \in Reached(rel, x)
<1> DEFINE R(x) == Reached(rel, x)
           T == {Cardinality(R(x)) : x \in Z}
<1>1. \A x : R(x) \in SUBSET GraphModules
  BY DEF Reached
<1>2. \A x : IsFiniteSet(R(x)) /\ Cardinality(R(x)) \in Nat
  <2> SUFFICES ASSUME NEW x PROVE IsFiniteSet(R(x)) /\ Cardinality(R(x)) \in Nat
    OBVIOUS
  <2>1. R(x) \in SUBSET GraphModules /\ IsFiniteSet(GraphModules)
    BY <1>1, DependencyGraphAssumption DEF DependencyGraphAssumption
  <2> HIDE DEF R
  <2>2. IsFiniteSet(R(x))
    BY <2>1, FS_Subset
  <2> QED
    BY <2>2, FS_CardinalityType
<1> HIDE DEF R
<1>3. T \in SUBSET Nat /\ T # {}
  BY <1>2
<1>4. PICK c \in T : \A y \in T : c <= y
  <2> HIDE DEF T
  <2> QED
    BY <1>3, LeastNat
<1>5. PICK x \in Z : c = Cardinality(R(x))
  BY <1>4
<1>6. PICK y \in Z : <<x, y>> \in rel
  OBVIOUS
<1>7. y \in R(x)
  BY <1>6, ReachedEdge DEF R
<1>8. R(y) \subseteq R(x)
  BY <1>7, ReachedThrough DEF R
<1>9. Cardinality(R(x)) <= Cardinality(R(y))
  BY <1>4, <1>5
<1>10. R(y) = R(x)
  <2>1. Cardinality(R(y)) <= Cardinality(R(x)) /\ (Cardinality(R(y)) = Cardinality(R(x)) => R(y) = R(x))
    BY <1>2, <1>8, FS_Subset
  <2> QED
    BY <1>2, <1>9, <2>1
<1> QED
  BY <1>7, <1>10 DEF R

\* The edges of the graph are the dependencies that its walks go along.
LEMMA EdgeIs ==
    ASSUME DependencyInv
    PROVE  /\ Edge \in Relations
           /\ \A x \in GraphModules : /\ Deps(x) \in Lists /\ IsInjective(Deps(x))
                                      /\ ToSet(Deps(x)) = Succ(Edge, x)
           /\ \A e \in Edge : e[1] \in DOMAIN edges /\ e[2] \in DOMAIN edges
<1>1. /\ DOMAIN edges \in SUBSET GraphModules
      /\ \A x \in DOMAIN edges : /\ edges[x] \in Lists /\ IsInjective(edges[x])
                                 /\ ToSet(edges[x]) \subseteq DOMAIN edges
  BY DEF DependencyInv, Mirrors, Links
<1>2. \A x \in DOMAIN edges : \A y : Contains(edges[x], y) <=> y \in ToSet(edges[x])
  BY <1>1, ListIs
<1>3. \A x, y : <<x, y>> \in Edge <=> x \in DOMAIN edges /\ y \in DOMAIN edges /\ Contains(edges[x], y)
  BY DEF Edge
<1>4. Edge \in Relations
  BY <1>1 DEF Edge, Relations
<1>5. ASSUME NEW x \in GraphModules
      PROVE  Deps(x) \in Lists /\ IsInjective(Deps(x)) /\ ToSet(Deps(x)) = Succ(Edge, x)
  <2>1. CASE x \in DOMAIN edges
    <3>1. Deps(x) = edges[x]
      BY <2>1 DEF Deps
    <3>2. ToSet(edges[x]) = Succ(Edge, x)
      BY <1>1, <1>2, <1>3, <2>1 DEF Succ
    <3> QED
      BY <1>1, <2>1, <3>1, <3>2
  <2>2. CASE x \notin DOMAIN edges
    <3>1. Deps(x) = <<>>
      BY <2>2 DEF Deps
    <3>2. Succ(Edge, x) = {}
      BY <1>3, <2>2 DEF Succ
    <3> QED
      BY <3>1, <3>2, NoneIs
  <2> QED
    BY <2>1, <2>2
<1>6. \A e \in Edge : e[1] \in DOMAIN edges /\ e[2] \in DOMAIN edges
  BY DEF Edge
<1> QED
  BY <1>4, <1>5, <1>6

\* What comes before what, when a list grows at its end.
Ordered(rel, s) == \A e \in rel : e[1] \in ToSet(s) => Before(s, e[2], e[1])

\* The empty list is in any order.
LEMMA NoneOrdered == \A rel : Ordered(rel, <<>>)
BY NoneIs DEF Ordered

\* What is added at the end when all that it leads to is there keeps the order.
LEMMA AppendOrdered ==
    ASSUME NEW rel \in Relations, NEW s \in Lists, NEW x \in GraphModules,
           Ordered(rel, s), x \notin ToSet(s), Succ(rel, x) \subseteq ToSet(s)
    PROVE  Ordered(rel, Append(s, x))
<1> DEFINE q == Append(s, x)
           n == Len(s)
<1>1. /\ q \in Lists /\ Len(q) = n + 1 /\ n \in Nat
      /\ \A i \in 1..n : q[i] = s[i]
      /\ q[n + 1] = x /\ DOMAIN q = 1..(n + 1) /\ DOMAIN s = 1..n
  BY DEF Lists
<1>2. ToSet(q) = ToSet(s) \cup {x}
  BY AppendIs
<1>3. \A i \in 1..n : i \in 1..(n + 1) /\ i < n + 1
  BY <1>1
<1>4. ToSet(s) = {s[i] : i \in 1..n} /\ n + 1 \in 1..(n + 1)
  BY <1>1, ListIs
<1> HIDE DEF q, n
<1>5. ASSUME NEW y, NEW z, Before(s, y, z) PROVE Before(q, y, z)
  <2>1. PICK i \in 1..n, j \in 1..n : i < j /\ s[i] = y /\ s[j] = z
    BY <1>1, <1>5 DEF Before
  <2>2. q[i] = y /\ q[j] = z /\ i \in DOMAIN q /\ j \in DOMAIN q
    BY <1>1, <1>3, <2>1
  <2> QED
    BY <2>1, <2>2 DEF Before
<1>6. ASSUME NEW y \in ToSet(s) PROVE Before(q, y, x)
  <2>1. PICK i \in 1..n : s[i] = y
    BY <1>4
  <2>2. i \in DOMAIN q /\ n + 1 \in DOMAIN q /\ i < n + 1 /\ q[i] = y /\ q[n + 1] = x
    BY <1>1, <1>3, <1>4, <2>1
  <2> QED
    BY <2>2 DEF Before
<1>7. ASSUME NEW e \in rel, e[1] \in ToSet(q) PROVE Before(q, e[2], e[1])
  <2>1. CASE e[1] \in ToSet(s)
    BY <1>5, <2>1 DEF Ordered
  <2>2. CASE e[1] = x
    <3>1. e = <<x, e[2]>> /\ e[2] \in GraphModules
      BY <2>2 DEF Relations
    <3>2. e[2] \in Succ(rel, x)
      BY <3>1 DEF Succ
    <3> QED
      BY <1>6, <2>2, <3>2
  <2> QED
    BY <1>2, <1>7, <2>1, <2>2
<1> QED
  BY <1>7 DEF Ordered, q

\* So it does when it is noted only if it is new.
LEMMA WithOrdered ==
    ASSUME NEW rel \in Relations, NEW s \in Lists, NEW x \in GraphModules,
           Ordered(rel, s), Succ(rel, x) \subseteq ToSet(s)
    PROVE  Ordered(rel, With(s, x))
<1>1. Contains(s, x) <=> x \in ToSet(s)
  BY ListIs
<1> QED
  BY <1>1, AppendOrdered DEF With

\* The unload order is the load order the other way round.
LEMMA ReverseBefore ==
    ASSUME NEW s \in Lists, NEW x, NEW y, Before(s, x, y)
    PROVE  Before(Reverse(s), y, x)
<1>1. PICK i \in 1..Len(s), j \in 1..Len(s) : i < j /\ s[i] = x /\ s[j] = y
  BY ListIs DEF Before
<1> DEFINE n == Len(s)
           a == n - j + 1
           b == n - i + 1
<1>2. n \in Nat /\ a \in 1..n /\ b \in 1..n /\ a < b /\ n - a + 1 = j /\ n - b + 1 = i
  BY <1>1, ListIs
<1>3. Reverse(s) = [k \in 1..n |-> s[n - k + 1]]
  BY DEF Reverse
<1> HIDE DEF a, b, n
<1>4. Reverse(s)[a] = y /\ Reverse(s)[b] = x /\ DOMAIN Reverse(s) = 1..n
  BY <1>1, <1>2, <1>3
<1> QED
  BY <1>2, <1>4 DEF Before

-------------------------------------------------------------------------------
(* collect_dependencies.                                                   *)

\* A loop ends with a value of those that its steps give.
LEMMA AlongIs ==
    ASSUME NEW V, NEW T, NEW step \in [V \X T -> V], NEW b \in V, NEW q \in Seq(T)
    PROVE  Along(step, b, q) \in V
<1>1. PICK f \in [0..Len(q) -> V] : Runs(f, step, b, q, Len(q)) /\ Along(step, b, q) = f[Len(q)]
  <2>1. RunsThrough(V, step, b, q)
    BY ONLY step \in [V \X T -> V], b \in V, q \in Seq(T), AlongSteps, Zenon
  <2> QED
    BY <2>1 DEF RunsThrough
<1>2. Len(q) \in 0..Len(q)
  OBVIOUS
<1> QED
  BY <1>1, <1>2

\* What a recursive call is to the body that makes it.
CollectSteps == [Collectors \X GraphModules -> Collectors]

\* The types of collect_dependencies.
LEMMA CollectIs ==
    ASSUME DependencyInv, NEW below \in CollectSteps, NEW m \in GraphModules, NEW a \in Collectors
    PROVE  Collect(below, m, a) \in Collectors /\ Noted(Collect(below, m, a), m) \in Collectors
<1> DEFINE a0 == [a EXCEPT !.visited = @ \cup {m}]
           b == Along(below, a0, Deps(m))
<1>1. a0 \in Collectors
  BY DEF Collectors
<1>2. Deps(m) \in Seq(GraphModules)
  BY EdgeIs DEF Lists
<1>3. b \in Collectors
  <2> HIDE DEF a0
  <2>1. below \in [Collectors \X GraphModules -> Collectors]
    BY DEF CollectSteps
  <2> QED
    BY ONLY <1>1, <1>2, <2>1, AlongIs, Zenon
<1>4. Collect(below, m, a) \in Collectors
  <2> HIDE DEF b
  <2> QED
    BY <1>3 DEF Collect, b
<1>5. ASSUME NEW c \in Collectors PROVE Noted(c, m) \in Collectors
  <2>1. c.result \in Lists
    BY DEF Collectors, Lists
  <2>2. With(c.result, m) \in Seq(GraphModules)
    BY <2>1, WithIs DEF Lists
  <2> QED
    BY <2>2 DEF Noted, Collectors
<1> QED
  BY <1>4, <1>5

\* The calls exist at every depth, and each is its body with the one below.
LEMMA CollectingIs ==
    ASSUME DependencyInv
    PROVE  /\ Collecting \in [Nat -> CollectSteps]
           /\ \A n \in Nat : n > 0 =>
                 \A a \in Collectors, m \in GraphModules :
                    Collecting[n][<<a, m>>] = Noted(Collect(Collecting[n - 1], m, a), m)
<1> DEFINE X == Collectors \X GraphModules
           g == [f \in CollectSteps |-> [x \in X |-> Noted(Collect(f, x[2], x[1]), x[2])]]
           b == [x \in X |-> x[1]]
           Body(f) == [n \in Nat |-> [x \in X |-> IF n = 0 THEN x[1]
                                                  ELSE Noted(Collect(f[n - 1], x[2], x[1]), x[2])]]
<1>1. Collecting = CHOOSE f : f = Body(f)
  BY DEF Collecting
<1>2. b \in CollectSteps
  BY DEF CollectSteps
<1>3. \A f \in CollectSteps, x \in X : Noted(Collect(f, x[2], x[1]), x[2]) \in Collectors
  BY CollectIs
<1>4. g \in [CollectSteps -> CollectSteps]
  BY <1>3 DEF CollectSteps
<1>5. PICK h \in [Nat -> CollectSteps] : Iterates(h, b, g)
  <2> HIDE DEF b, g
  <2> QED
    BY <1>2, <1>4, IterationExists
<1>6. ASSUME NEW n \in Nat
      PROVE  h[n] = [x \in X |-> IF n = 0 THEN x[1] ELSE Noted(Collect(h[n - 1], x[2], x[1]), x[2])]
  <2>1. h[n] = IF n = 0 THEN b ELSE g[h[n - 1]]
    BY <1>5 DEF Iterates
  <2>2. CASE n = 0
    BY <2>1, <2>2
  <2>3. CASE n # 0
    <3>1. h[n - 1] \in CollectSteps
      BY <1>5, <2>3
    <3>2. g[h[n - 1]] = [x \in X |-> Noted(Collect(h[n - 1], x[2], x[1]), x[2])]
      BY <3>1
    <3> QED
      BY <2>1, <2>3, <3>2
  <2> QED
    BY <2>2, <2>3
<1>7. h = Body(h)
  <2>1. h = [n \in Nat |-> h[n]]
    BY <1>5
  <2> QED
    BY <1>6, <2>1
<1>8. Collecting = Body(Collecting)
  BY <1>1, <1>7
<1>9. \A n \in Nat : Collecting[n] = h[n]
  <2> DEFINE S == {n \in Nat : Collecting[n] = h[n]}
  <2>1. 0 \in S
    BY <1>6, <1>8
  <2>2. ASSUME NEW n \in Nat, n \in S PROVE n + 1 \in S
    <3>1. n + 1 \in Nat /\ n + 1 # 0 /\ (n + 1) - 1 = n
      OBVIOUS
    <3>2. Collecting[n + 1] = [x \in X |-> Noted(Collect(Collecting[n], x[2], x[1]), x[2])]
      BY <1>8, <3>1
    <3>3. h[n + 1] = [x \in X |-> Noted(Collect(h[n], x[2], x[1]), x[2])]
      BY <1>6, <3>1
    <3> QED
      BY <2>2, <3>1, <3>2, <3>3
  <2> HIDE DEF S
  <2> SUFFICES ASSUME NEW n \in Nat PROVE n \in S
    BY DEF S
  <2>3. \A k \in 0..(n - 1) : k \in S => k + 1 \in S
    BY <2>2
  <2> QED
    BY <2>1, <2>3, UpTo
<1>10. Collecting \in [Nat -> CollectSteps]
  BY <1>5, <1>8, <1>9
<1>11. ASSUME NEW n \in Nat, n > 0, NEW a \in Collectors, NEW m \in GraphModules
       PROVE  Collecting[n][<<a, m>>] = Noted(Collect(Collecting[n - 1], m, a), m)
  <2>1. Collecting[n] = Body(Collecting)[n]
    BY <1>8
  <2>2. Collecting[n] = [x \in X |-> Noted(Collect(Collecting[n - 1], x[2], x[1]), x[2])]
    BY <1>11, <2>1
  <2>3. <<a, m>> \in X
    OBVIOUS
  <2> QED
    BY <2>2, <2>3
<1> QED
  BY <1>10, <1>11

\* How deep a walk may still go: what is unseen is finite and gets less.
LEMMA Fewer ==
    ASSUME NEW S \in SUBSET GraphModules, NEW T \in SUBSET S
    PROVE  /\ IsFiniteSet(S) /\ Cardinality(S) \in Nat /\ Cardinality(T) \in Nat
           /\ Cardinality(T) <= Cardinality(S)
           /\ \A x \in S : x \notin T => Cardinality(T) < Cardinality(S)
<1>1. IsFiniteSet(S)
  BY DependencyGraphAssumption, FS_Subset DEF DependencyGraphAssumption
<1>2. /\ IsFiniteSet(T) /\ Cardinality(T) <= Cardinality(S)
      /\ Cardinality(S) = Cardinality(T) => S = T
  BY <1>1, FS_Subset
<1>3. Cardinality(S) \in Nat /\ Cardinality(T) \in Nat
  BY <1>1, <1>2, FS_CardinalityType
<1> QED
  BY <1>1, <1>2, <1>3

\* What is reached along the edges of the graph is of the graph.
LEMMA ReachedModules ==
    ASSUME DependencyInv, NEW m
    PROVE  Reached(Edge, m) \subseteq DOMAIN edges
<1>1. DOMAIN edges \in SUBSET GraphModules
  BY DEF DependencyInv, Mirrors, Links
<1>2. Leads(Edge, DOMAIN edges \cup {m}, DOMAIN edges)
  BY EdgeIs DEF Leads
<1> QED
  BY <1>1, <1>2, EdgeIs, ReachedLeast

\* What collect_dependencies has gathered on behalf of r.
Gathered(r, a) ==
    /\ a \in Collectors /\ IsInjective(a.result)
    /\ ToSet(a.result) \subseteq a.visited /\ ToSet(a.result) \subseteq Reached(Edge, r)

\* Of what is seen on the way from a to b, all dependencies are gathered.
Gathers(a, b) ==
    /\ a.visited \subseteq b.visited /\ ToSet(a.result) \subseteq ToSet(b.result)
    /\ \A x \in b.visited \ a.visited : Succ(Edge, x) \subseteq ToSet(b.result)

\* The modules that it is still collecting for; and that it came from these.
Unfinished(a) == a.visited \ ToSet(a.result)
OnTheWay(a, d) == Ordered(Edge, a.result) /\ \A x \in Unfinished(a) : d \in Reached(Edge, x)

\* A call that may go n deep, for what r needs, on the way from what it has to come back to.
CollectsFrom(n, r) ==
    \A a \in Collectors, d \in GraphModules :
        Gathered(r, a) /\ d \in Reached(Edge, r) /\ Cardinality(GraphModules \ a.visited) < n =>
            LET b == Collecting[n][<<a, d>>]
            IN  /\ Gathered(r, b) /\ Gathers(a, b) /\ d \in ToSet(b.result)
                /\ ~Cyclic /\ OnTheWay(a, d) =>
                      Ordered(Edge, b.result) /\ Unfinished(b) = Unfinished(a)

\* What is gathered in one call after another.
LEMMA GathersOn ==
    ASSUME NEW a, NEW b, NEW c, Gathers(a, b), Gathers(b, c)
    PROVE  Gathers(a, c)
BY DEF Gathers

\* The loop of collect_dependencies over a module's dependencies.
LEMMA CollectLoop ==
    ASSUME DependencyInv, NEW r \in GraphModules, NEW n \in Nat, CollectsFrom(n, r),
           NEW a \in Collectors, NEW m \in GraphModules, m \notin a.visited, Gathered(r, a),
           m = r \/ m \in Reached(Edge, r), Cardinality(GraphModules \ a.visited) <= n
    PROVE  LET b == Collect(Collecting[n], m, a)
           IN  /\ Gathered(r, b) /\ Gathers(a, b) /\ m \in b.visited
               /\ ~Cyclic /\ OnTheWay(a, m) =>
                     Ordered(Edge, b.result) /\ Unfinished(b) = Unfinished(a) \cup {m}
<1> DEFINE a0 == [a EXCEPT !.visited = @ \cup {m}]
           q == Deps(m)
           b == Along(Collecting[n], a0, q)
           Clean == ~Cyclic /\ OnTheWay(a, m)
           Holds == {x \in Nat \X Collectors :
                        /\ Gathered(r, x[2]) /\ Gathers(a0, x[2]) /\ Upto(q, x[1]) \subseteq ToSet(x[2].result)
                        /\ Clean => Ordered(Edge, x[2].result) /\ Unfinished(x[2]) = Unfinished(a0)}
<1>1. /\ a0 \in Collectors /\ a0.visited = a.visited \cup {m} /\ a0.result = a.result
      /\ a.visited \in SUBSET GraphModules
  BY DEF Collectors
<1>2. /\ q \in Lists /\ ToSet(q) = Succ(Edge, m) /\ Edge \in Relations /\ q \in Seq(GraphModules)
      /\ \A k \in 1..Len(q) : q[k] \in Succ(Edge, m) /\ q[k] \in GraphModules /\ <<m, q[k]>> \in Edge
  <2>1. q \in Lists /\ ToSet(q) = Succ(Edge, m) /\ Edge \in Relations
    BY EdgeIs
  <2>2. \A k \in 1..Len(q) : q[k] \in ToSet(q)
    BY <2>1, ListIs
  <2> HIDE DEF q
  <2> QED
    BY <2>1, <2>2 DEF Succ, Lists
<1>3. \A d \in Succ(Edge, m) : d \in Reached(Edge, r)
  BY <1>2, ReachedEdge, ReachedOn DEF Succ
<1>4. Unfinished(a0) = Unfinished(a) \cup {m}
  BY <1>1 DEF Unfinished, Gathered
<1>5. Collecting[n] \in [Collectors \X GraphModules -> Collectors]
  BY CollectingIs DEF CollectSteps
<1> HIDE DEF a0, q
<1>6. <<0, a0>> \in Holds
  <2>1. Upto(q, 0) = {}
    BY UptoNone
  <2>2. Gathered(r, a0) /\ Gathers(a0, a0)
    BY <1>1 DEF Gathered, Gathers
  <2>3. Clean => Ordered(Edge, a0.result)
    BY <1>1 DEF OnTheWay
  <2> QED
    BY <1>1, <2>1, <2>2, <2>3
<1>7. Keeps(Collectors, Collecting[n], q, Holds)
  <2> SUFFICES ASSUME NEW k \in 1..Len(q), NEW c \in Collectors, <<k - 1, c>> \in Holds
               PROVE  <<k, Collecting[n][<<c, q[k]>>]>> \in Holds
    BY DEF Keeps
  <2> DEFINE d == q[k]
             e == Collecting[n][<<c, d>>]
  <2>1. /\ Gathered(r, c) /\ Gathers(a0, c) /\ Upto(q, k - 1) \subseteq ToSet(c.result)
        /\ Clean => Ordered(Edge, c.result) /\ Unfinished(c) = Unfinished(a0)
    OBVIOUS
  <2>2. k \in Nat /\ k > 0 /\ Upto(q, k) = Upto(q, k - 1) \cup {d}
    <3>1. k \in Nat /\ k > 0
      BY <1>2, ListIs
    <3> QED
      BY <3>1, UptoNext
  <2>3. d \in GraphModules /\ d \in Reached(Edge, r) /\ <<m, d>> \in Edge
    BY <1>2, <1>3
  <2>4. Cardinality(GraphModules \ c.visited) < n
    <3>1. c.visited \in SUBSET GraphModules /\ a.visited \cup {m} \subseteq c.visited
      BY <1>1, <2>1 DEF Gathers, Collectors
    <3>2. /\ GraphModules \ a.visited \in SUBSET GraphModules
          /\ GraphModules \ c.visited \in SUBSET (GraphModules \ a.visited)
          /\ m \in GraphModules \ a.visited /\ m \notin GraphModules \ c.visited
      BY <1>1, <3>1
    <3>3. /\ Cardinality(GraphModules \ c.visited) < Cardinality(GraphModules \ a.visited)
          /\ Cardinality(GraphModules \ c.visited) \in Nat /\ Cardinality(GraphModules \ a.visited) \in Nat
      BY <3>2, Fewer
    <3> QED
      BY <3>3
  <2>5. Clean => OnTheWay(c, d)
    <3> SUFFICES ASSUME Clean PROVE OnTheWay(c, d)
      OBVIOUS
    <3>1. Ordered(Edge, c.result) /\ Unfinished(c) = Unfinished(a) \cup {m}
      BY <1>4, <2>1
    <3>2. \A x \in Unfinished(a) : m \in Reached(Edge, x)
      BY DEF OnTheWay
    <3>3. ASSUME NEW x \in Unfinished(a) \cup {m} PROVE d \in Reached(Edge, x)
      BY <1>2, <2>3, <3>2, ReachedEdge, ReachedOn
    <3> QED
      BY <3>1, <3>3 DEF OnTheWay
  <2> HIDE DEF d
  <2>6. /\ Gathered(r, e) /\ Gathers(c, e) /\ d \in ToSet(e.result)
        /\ ~Cyclic /\ OnTheWay(c, d) => Ordered(Edge, e.result) /\ Unfinished(e) = Unfinished(c)
    BY <2>1, <2>3, <2>4 DEF CollectsFrom
  <2>7. e \in Collectors
    BY <2>6 DEF Gathered
  <2> HIDE DEF e
  <2>8. Gathers(a0, e)
    BY <2>1, <2>6, GathersOn
  <2>9. Upto(q, k) \subseteq ToSet(e.result)
    BY <2>1, <2>2, <2>6 DEF Gathers
  <2>10. Clean => Ordered(Edge, e.result) /\ Unfinished(e) = Unfinished(a0)
    BY <2>1, <2>5, <2>6
  <2>11. <<k, e>> \in Holds
    BY <2>2, <2>6, <2>7, <2>8, <2>9, <2>10
  <2> HIDE DEF Holds
  <2> QED
    BY <2>11 DEF e, d
<1>8. EndsIn(Collectors, b, q, Holds)
  <2> HIDE DEF Holds
  <2> QED
    BY ONLY <1>1, <1>2, <1>5, <1>6, <1>7, LoopInvariant, Zenon
<1> HIDE DEF b
<1>9. /\ Gathered(r, b) /\ Gathers(a0, b) /\ Upto(q, Len(q)) \subseteq ToSet(b.result)
      /\ Clean => Ordered(Edge, b.result) /\ Unfinished(b) = Unfinished(a0)
  BY <1>8 DEF EndsIn
<1>10. Succ(Edge, m) \subseteq ToSet(b.result)
  <2>1. Upto(q, Len(q)) = ToSet(q)
    BY <1>2, ListIs DEF Upto
  <2> QED
    BY <1>2, <1>9, <2>1
<1>11. Gathers(a, b) /\ m \in b.visited
  BY <1>1, <1>9, <1>10 DEF Gathers
<1>12. Collect(Collecting[n], m, a) = b
  BY DEF Collect, b, q, a0
<1> QED
  BY <1>4, <1>9, <1>11, <1>12

\* By induction on the depth.
LEMMA CollectDepth ==
    ASSUME DependencyInv, NEW r \in GraphModules, NEW n \in Nat
    PROVE  CollectsFrom(n, r)
<1> DEFINE S == {k \in Nat : CollectsFrom(k, r)}
<1>1. 0 \in S
  <2> SUFFICES ASSUME NEW a \in Collectors PROVE ~ (Cardinality(GraphModules \ a.visited) < 0)
    BY DEF CollectsFrom
  <2>1. GraphModules \ a.visited \in SUBSET GraphModules
    OBVIOUS
  <2>2. Cardinality(GraphModules \ a.visited) \in Nat
    BY <2>1, Fewer
  <2> QED
    BY <2>2
<1>2. ASSUME NEW k \in Nat, CollectsFrom(k, r) PROVE CollectsFrom(k + 1, r)
  <2> SUFFICES ASSUME NEW a \in Collectors, NEW d \in GraphModules, Gathered(r, a),
                      d \in Reached(Edge, r), Cardinality(GraphModules \ a.visited) < k + 1
               PROVE  LET b == Collecting[k + 1][<<a, d>>]
                      IN  /\ Gathered(r, b) /\ Gathers(a, b) /\ d \in ToSet(b.result)
                          /\ ~Cyclic /\ OnTheWay(a, d) =>
                                Ordered(Edge, b.result) /\ Unfinished(b) = Unfinished(a)
    BY DEF CollectsFrom
  <2> DEFINE c == Collect(Collecting[k], d, a)
             b == Noted(c, d)
  <2>1. Collecting[k + 1][<<a, d>>] = b
    BY CollectingIs
  <2>2. Edge \in Relations
    BY EdgeIs
  <2>3. ASSUME Gathered(r, c), Gathers(a, c), d \in c.visited
        PROVE  /\ Gathered(r, b) /\ Gathers(a, b) /\ d \in ToSet(b.result)
               /\ ToSet(b.result) = ToSet(c.result) \cup {d} /\ b.result = With(c.result, d)
               /\ b.visited = c.visited
    <3>1. c \in Collectors /\ c.result \in Lists /\ c.visited \in SUBSET GraphModules
      BY <2>3 DEF Gathered, Collectors, Lists
    <3>2. /\ With(c.result, d) \in Lists /\ ToSet(With(c.result, d)) = ToSet(c.result) \cup {d}
          /\ IsInjective(c.result) => IsInjective(With(c.result, d))
      BY <3>1, WithIs
    <3> HIDE DEF c
    <3>3. b \in Collectors /\ b.result = With(c.result, d) /\ b.visited = c.visited
      BY <3>1, <3>2 DEF Noted, Collectors, Lists
    <3> HIDE DEF b
    <3> QED
      BY <2>3, <3>2, <3>3 DEF Gathered, Gathers
  <2>4. CASE d \in a.visited
    <3>1. c = a
      BY <2>4 DEF Collect
    <3>2. Gathers(a, a)
      BY DEF Gathers
    <3>3. ASSUME ~Cyclic, OnTheWay(a, d) PROVE Ordered(Edge, b.result) /\ Unfinished(b) = Unfinished(a)
      <4>1. d \in DOMAIN edges
        BY ReachedModules
      <4>2. d \in ToSet(a.result)
        BY <2>4, <3>3, <4>1 DEF Cyclic, OnTheWay, Unfinished
      <4>3. a.result \in Lists
        BY DEF Collectors, Lists
      <4>4. With(a.result, d) = a.result
        BY <4>2, <4>3, ListIs DEF With
      <4> HIDE DEF b, c
      <4> QED
        BY <2>3, <2>4, <3>1, <3>2, <3>3, <4>4 DEF OnTheWay, Unfinished
    <3> HIDE DEF b, c
    <3> QED
      BY <2>1, <2>3, <2>4, <3>1, <3>2, <3>3
  <2>5. CASE d \notin a.visited
    <3>1. Cardinality(GraphModules \ a.visited) <= k
      <4>1. GraphModules \ a.visited \in SUBSET GraphModules
        OBVIOUS
      <4>2. Cardinality(GraphModules \ a.visited) \in Nat
        BY <4>1, Fewer
      <4> QED
        BY <4>2
    <3>2. /\ Gathered(r, c) /\ Gathers(a, c) /\ d \in c.visited
          /\ ~Cyclic /\ OnTheWay(a, d) =>
                Ordered(Edge, c.result) /\ Unfinished(c) = Unfinished(a) \cup {d}
      BY <1>2, <2>5, <3>1, CollectLoop
    <3>3. Succ(Edge, d) \subseteq ToSet(c.result)
      BY <2>5, <3>2 DEF Gathers
    <3> HIDE DEF b, c
    <3>4. c.result \in Lists
      BY <3>2 DEF Gathered, Collectors, Lists
    <3>5. ASSUME ~Cyclic, OnTheWay(a, d) PROVE Ordered(Edge, b.result) /\ Unfinished(b) = Unfinished(a)
      <4>1. Ordered(Edge, With(c.result, d))
        BY <2>2, <3>2, <3>3, <3>4, <3>5, WithOrdered
      <4>2. d \notin Unfinished(a)
        BY <2>5 DEF Unfinished
      <4>3. b.result = With(c.result, d) /\ ToSet(b.result) = ToSet(c.result) \cup {d} /\ b.visited = c.visited
        BY <2>3, <3>2
      <4> QED
        BY <3>2, <3>5, <4>1, <4>2, <4>3 DEF Unfinished
    <3> QED
      BY <2>1, <2>3, <3>2, <3>5
  <2> QED
    BY <2>4, <2>5
<1>3. \A j \in 0..n : j \in S
  <2>1. \A j \in 0..(n - 1) : j \in S => j + 1 \in S
    BY <1>2
  <2> HIDE DEF S
  <2> QED
    BY <1>1, <2>1, UpTo
<1> QED
  BY <1>3

\* get_all_dependencies gives what is reached, once each and in order.
LEMMA CollectedHolds == DependencyInv => DependenciesCollected
<1> SUFFICES ASSUME DependencyInv, NEW m \in DOMAIN edges
             PROVE  LET all == AllDependencies(m) IN
                    /\ IsInjective(all) /\ ToSet(all) = Reached(Edge, m)
                    /\ ~Cyclic => \A e \in Edge : (e[1] \in ToSet(all)) => Before(all, e[2], e[1])
  BY DEF DependenciesCollected
<1> DEFINE a == [result |-> <<>>, visited |-> {}]
           b == Collect(Collecting[Depth], m, a)
<1>1. m \in GraphModules /\ Edge \in Relations
  BY EdgeIs DEF DependencyInv, Mirrors, Links
<1>2. a \in Collectors /\ a.result = <<>> /\ a.visited = {} /\ ToSet(a.result) = {} /\ IsInjective(a.result)
  BY NoneIs DEF Collectors
<1>3. Gathered(m, a) /\ m \notin a.visited /\ OnTheWay(a, m)
  BY <1>2, NoneOrdered DEF Gathered, OnTheWay, Unfinished
<1>4. Depth \in Nat /\ Cardinality(GraphModules \ a.visited) <= Depth
  <2>1. GraphModules \ a.visited = GraphModules
    BY <1>2
  <2>2. Cardinality(GraphModules) \in Nat
    BY Fewer
  <2> QED
    BY <2>1, <2>2 DEF Depth
<1> HIDE DEF a
<1>5. /\ Gathered(m, b) /\ Gathers(a, b) /\ m \in b.visited
      /\ ~Cyclic /\ OnTheWay(a, m) => Ordered(Edge, b.result) /\ Unfinished(b) = Unfinished(a) \cup {m}
  BY <1>1, <1>2, <1>3, <1>4, CollectDepth, CollectLoop
<1> HIDE DEF b
<1>6. \A x \in b.visited : Succ(Edge, x) \subseteq ToSet(b.result)
  BY <1>2, <1>5 DEF Gathers
<1>7. Leads(Edge, ToSet(b.result) \cup {m}, ToSet(b.result))
  <2> SUFFICES ASSUME NEW e \in Edge, e[1] \in ToSet(b.result) \cup {m} PROVE e[2] \in ToSet(b.result)
    BY DEF Leads
  <2>1. e[1] \in b.visited
    BY <1>5 DEF Gathered
  <2>2. e[2] \in Succ(Edge, e[1])
    BY <1>1 DEF Succ, Relations
  <2> QED
    BY <1>6, <2>1, <2>2
<1>8. ToSet(b.result) \in SUBSET GraphModules
  <2>1. b.result \in Lists
    BY <1>5 DEF Gathered, Collectors, Lists
  <2> QED
    BY <2>1, ListIs
<1>9. Reached(Edge, m) \subseteq ToSet(b.result)
  BY <1>1, <1>7, <1>8, ReachedLeast
<1>10. IsInjective(b.result) /\ ToSet(b.result) = Reached(Edge, m)
  BY <1>5, <1>9 DEF Gathered
<1>11. AllDependencies(m) = b.result
  BY DEF AllDependencies, b, a
<1>12. ~Cyclic => \A e \in Edge : (e[1] \in ToSet(b.result)) => Before(b.result, e[2], e[1])
  BY <1>3, <1>5 DEF Ordered
<1> QED
  BY <1>10, <1>11, <1>12

-------------------------------------------------------------------------------
(* find_cycle.                                                             *)

\* The part of the path from where the module is on it, and the module again.
LEMMA CyclePathIs ==
    ASSUME NEW s \in Lists, NEW m \in GraphModules, Contains(s, m)
    PROVE  /\ CyclePath(m, s) \in Lists
           /\ \E i \in 1..Len(s) :
                 /\ s[i] = m /\ Len(CyclePath(m, s)) = Len(s) - i + 2
                 /\ \A j \in 1..(Len(s) - i + 1) : CyclePath(m, s)[j] = s[i + j - 1]
                 /\ CyclePath(m, s)[Len(s) - i + 2] = m
<1> DEFINE I == {i \in 1..Len(s) : s[i] = m}
           i == Min(I)
           n == Len(s)
<1>1. n \in Nat /\ s \in Seq(GraphModules) /\ \A j \in 1..n : s[j] \in GraphModules
  BY ListIs DEF Lists
<1>2. I \in SUBSET Nat /\ I # {}
  BY <1>1, ListIs DEF Contains
<1>3. i \in I
  <2>1. \E x \in I : \A y \in I : x <= y
    <3> HIDE DEF I
    <3> QED
      BY <1>2, LeastNat
  <2> QED
    BY <2>1 DEF Min
<1>4. SelectInSeq(s, LAMBDA x : x = m) = i
  BY <1>2 DEF SelectInSeq
<1>5. i \in 1..n /\ s[i] = m
  BY <1>3
<1> HIDE DEF I, i
<1> DEFINE q == SubSeq(s, i, n)
<1>6. /\ q \in Seq(GraphModules) /\ Len(q) = n - i + 1
      /\ \A j \in 1..(n - i + 1) : q[j] = s[i + j - 1]
  BY <1>1, <1>5
<1>7. CyclePath(m, s) = Append(q, m)
  BY <1>4 DEF CyclePath
<1> HIDE DEF q
<1>8. /\ Append(q, m) \in Seq(GraphModules) /\ Len(Append(q, m)) = n - i + 2
      /\ \A j \in 1..(n - i + 1) : Append(q, m)[j] = s[i + j - 1]
      /\ Append(q, m)[n - i + 2] = m
  <2> DEFINE k == n - i + 1
  <2>1. k \in Nat /\ k = n - i + 1 /\ k + 1 = n - i + 2
    BY <1>1, <1>5
  <2> HIDE DEF k
  <2>2. /\ Append(q, m) \in Seq(GraphModules) /\ Len(Append(q, m)) = k + 1
        /\ \A j \in 1..k : Append(q, m)[j] = q[j]
        /\ Append(q, m)[k + 1] = m
    BY <1>6, <2>1
  <2> QED
    BY ONLY <1>6, <2>1, <2>2
<1> QED
  BY <1>5, <1>7, <1>8 DEF Lists

WalkSteps == [Walkers \X GraphModules -> Walkers]

\* The types of find_cycle_util.
LEMMA WalkedIs ==
    ASSUME DependencyInv, NEW below \in WalkSteps, NEW m \in GraphModules, NEW a \in Walkers
    PROVE  Walked(below, m, a) \in Walkers
<1> DEFINE a0 == [a EXCEPT !.visited = @ \cup {m}, !.path = Append(@, m)]
           b == Along(below, a0, Deps(m))
<1>1. a0 \in Walkers
  <2>1. a.path \in Seq(GraphModules) /\ Append(a.path, m) \in Seq(GraphModules)
    BY DEF Walkers
  <2> QED
    BY <2>1 DEF Walkers
<1>2. Deps(m) \in Seq(GraphModules)
  BY EdgeIs DEF Lists
<1>3. b \in Walkers
  <2> HIDE DEF a0
  <2>1. below \in [Walkers \X GraphModules -> Walkers]
    BY DEF WalkSteps
  <2> QED
    BY ONLY <1>1, <1>2, <2>1, AlongIs, Zenon
<1>4. Closes(m, a) => [a EXCEPT !.cycle = CyclePath(m, a.path)] \in Walkers
  <2> SUFFICES ASSUME Closes(m, a) PROVE [a EXCEPT !.cycle = CyclePath(m, a.path)] \in Walkers
    OBVIOUS
  <2>1. a.path \in Lists /\ Contains(a.path, m)
    BY DEF Closes, Walkers, Lists
  <2>2. CyclePath(m, a.path) \in Seq(GraphModules)
    BY <2>1, CyclePathIs DEF Lists
  <2> QED
    BY <2>2 DEF Walkers
<1>5. [b EXCEPT !.path = a.path] \in Walkers
  <2> HIDE DEF b
  <2> QED
    BY <1>3 DEF Walkers
<1>6. Walked(below, m, a) = IF a.cycle # <<>> \/ (m \in a.visited /\ ~Closes(m, a)) THEN a
                            ELSE IF Closes(m, a) THEN [a EXCEPT !.cycle = CyclePath(m, a.path)]
                            ELSE IF b.cycle # <<>> THEN b ELSE [b EXCEPT !.path = a.path]
  BY DEF Walked
<1> HIDE DEF b
<1> QED
  BY <1>3, <1>4, <1>5, <1>6

\* The calls exist at every depth, and each is its body with the one below.
LEMMA WalkingIs ==
    ASSUME DependencyInv
    PROVE  /\ Walking \in [Nat -> WalkSteps]
           /\ \A a \in Walkers, m \in GraphModules : Walking[0][<<a, m>>] = a
           /\ \A n \in Nat : n > 0 =>
                 \A a \in Walkers, m \in GraphModules :
                    Walking[n][<<a, m>>] = Walked(Walking[n - 1], m, a)
<1> DEFINE X == Walkers \X GraphModules
           g == [f \in WalkSteps |-> [x \in X |-> Walked(f, x[2], x[1])]]
           b == [x \in X |-> x[1]]
           Body(f) == [n \in Nat |-> [x \in X |-> IF n = 0 THEN x[1]
                                                  ELSE Walked(f[n - 1], x[2], x[1])]]
<1>1. Walking = CHOOSE f : f = Body(f)
  BY DEF Walking
<1>2. b \in WalkSteps
  BY DEF WalkSteps
<1>3. \A f \in WalkSteps, x \in X : Walked(f, x[2], x[1]) \in Walkers
  BY WalkedIs
<1>4. g \in [WalkSteps -> WalkSteps]
  BY <1>3 DEF WalkSteps
<1>5. PICK h \in [Nat -> WalkSteps] : Iterates(h, b, g)
  <2> HIDE DEF b, g
  <2> QED
    BY <1>2, <1>4, IterationExists
<1>6. ASSUME NEW n \in Nat
      PROVE  h[n] = [x \in X |-> IF n = 0 THEN x[1] ELSE Walked(h[n - 1], x[2], x[1])]
  <2>1. h[n] = IF n = 0 THEN b ELSE g[h[n - 1]]
    BY <1>5 DEF Iterates
  <2>2. CASE n = 0
    BY <2>1, <2>2
  <2>3. CASE n # 0
    <3>1. h[n - 1] \in WalkSteps
      BY <1>5, <2>3
    <3>2. g[h[n - 1]] = [x \in X |-> Walked(h[n - 1], x[2], x[1])]
      BY <3>1
    <3> QED
      BY <2>1, <2>3, <3>2
  <2> QED
    BY <2>2, <2>3
<1>7. h = Body(h)
  <2>1. h = [n \in Nat |-> h[n]]
    BY <1>5
  <2> QED
    BY <1>6, <2>1
<1>8. Walking = Body(Walking)
  BY <1>1, <1>7
<1>9. \A n \in Nat : Walking[n] = h[n]
  <2> DEFINE S == {n \in Nat : Walking[n] = h[n]}
  <2>1. 0 \in S
    BY <1>6, <1>8
  <2>2. ASSUME NEW n \in Nat, n \in S PROVE n + 1 \in S
    <3>1. n + 1 \in Nat /\ n + 1 # 0 /\ (n + 1) - 1 = n
      OBVIOUS
    <3>2. Walking[n + 1] = [x \in X |-> Walked(Walking[n], x[2], x[1])]
      BY <1>8, <3>1
    <3>3. h[n + 1] = [x \in X |-> Walked(h[n], x[2], x[1])]
      BY <1>6, <3>1
    <3> QED
      BY <2>2, <3>1, <3>2, <3>3
  <2> HIDE DEF S
  <2> SUFFICES ASSUME NEW n \in Nat PROVE n \in S
    BY DEF S
  <2>3. \A k \in 0..(n - 1) : k \in S => k + 1 \in S
    BY <2>2
  <2> QED
    BY <2>1, <2>3, UpTo
<1>10. Walking \in [Nat -> WalkSteps]
  BY <1>5, <1>8, <1>9
<1>11. ASSUME NEW n \in Nat, n > 0, NEW a \in Walkers, NEW m \in GraphModules
       PROVE  Walking[n][<<a, m>>] = Walked(Walking[n - 1], m, a)
  <2>1. Walking[n] = Body(Walking)[n]
    BY <1>8
  <2>2. Walking[n] = [x \in X |-> Walked(Walking[n - 1], x[2], x[1])]
    BY <1>11, <2>1
  <2>3. <<a, m>> \in X
    OBVIOUS
  <2> QED
    BY <2>2, <2>3
<1>12. ASSUME NEW a \in Walkers, NEW m \in GraphModules PROVE Walking[0][<<a, m>>] = a
  <2>1. <<a, m>> \in X /\ Walking[0] = [x \in X |-> x[1]]
    BY <1>8
  <2> QED
    BY <2>1
<1> QED
  BY <1>10, <1>11, <1>12

\* A way along edges, and one that comes back to where it began.
Chain(s) == \A i \in 1..(Len(s) - 1) : <<s[i], s[i + 1]>> \in Edge
IsCycle(s) == s \in Lists /\ Len(s) > 1 /\ s[1] = Last(s) /\ Chain(s)

\* What find_cycle has left behind: all that can be reached from it, and no cycle.
LeftBehind(a) == a.visited \ ToSet(a.path)
Searching(a) ==
    /\ a \in Walkers /\ a.cycle = <<>> /\ Chain(a.path) /\ ToSet(a.path) \subseteq a.visited
    /\ Leads(Edge, LeftBehind(a), LeftBehind(a))
    /\ \A x \in LeftBehind(a) : x \notin Reached(Edge, x)
Found(a) == a \in Walkers /\ a.cycle # <<>> /\ IsCycle(a.cycle)

\* m is next on the path.
Follows(a, m) == a.path # <<>> => <<Last(a.path), m>> \in Edge

\* How a call ends: with a cycle, or with m left behind and the path as it was.
Ends(a, m, b) ==
    \/ Found(b)
    \/ Searching(b) /\ b.path = a.path /\ a.visited \subseteq b.visited /\ m \in LeftBehind(b)

\* A call that may go n deep.
WalksFrom(n) ==
    \A a \in Walkers, m \in GraphModules :
        Searching(a) /\ Follows(a, m) /\ Cardinality(GraphModules \ a.visited) < n =>
            Ends(a, m, Walking[n][<<a, m>>])

\* What find_cycle_util returns when it comes upon a module of its path is a cycle.
LEMMA CycleIsCycle ==
    ASSUME NEW s \in Lists, NEW m \in GraphModules, Chain(s), Contains(s, m), <<Last(s), m>> \in Edge
    PROVE  IsCycle(CyclePath(m, s)) /\ CyclePath(m, s) # <<>>
<1> DEFINE c == CyclePath(m, s)
           n == Len(s)
<1>1. n \in Nat
  BY ListIs
<1>2. c \in Lists
  BY CyclePathIs
<1>3. PICK i \in 1..n : /\ s[i] = m /\ Len(c) = n - i + 2
                        /\ \A j \in 1..(n - i + 1) : c[j] = s[i + j - 1]
                        /\ c[n - i + 2] = m
  BY CyclePathIs
<1> HIDE DEF c
<1>4. Len(c) > 1 /\ c[1] = m /\ Last(c) = m
  BY <1>1, <1>3 DEF Last
<1>5. ASSUME NEW j \in 1..(Len(c) - 1) PROVE <<c[j], c[j + 1]>> \in Edge
  <2>1. j \in 1..(n - i + 1) /\ c[j] = s[i + j - 1]
    BY <1>1, <1>3
  <2>2. CASE j = n - i + 1
    <3>1. i + j - 1 = n /\ j + 1 = n - i + 2
      BY <1>1, <2>2
    <3> QED
      BY <1>3, <2>1, <3>1 DEF Last
  <2>3. CASE j # n - i + 1
    <3>1. /\ j + 1 \in 1..(n - i + 1) /\ i + (j + 1) - 1 = (i + j - 1) + 1
          /\ i + j - 1 \in 1..(n - 1)
      BY <1>1, <2>1, <2>3
    <3>2. c[j + 1] = s[(i + j - 1) + 1]
      <4>1. \A k \in 1..(n - i + 1) : c[k] = s[i + k - 1]
        BY <1>3
      <4>2. c[j + 1] = s[i + (j + 1) - 1]
        BY ONLY <3>1, <4>1
      <4> QED
        BY ONLY <3>1, <4>2
    <3> QED
      BY <2>1, <3>1, <3>2 DEF Chain
  <2> QED
    BY <2>2, <2>3
<1> QED
  BY <1>2, <1>4, <1>5 DEF IsCycle, Chain, c

\* A cycle leads every module of it back to itself.
LEMMA CycleIsCyclic ==
    ASSUME DependencyInv, NEW c, IsCycle(c)
    PROVE  Cyclic
<1> DEFINE n == Len(c) - 2
           S == {k \in 0..n : c[k + 2] \in Reached(Edge, c[1])}
<1>1. /\ Len(c) \in Nat /\ Len(c) > 1 /\ c[1] = c[Len(c)] /\ n \in Nat /\ n + 2 = Len(c)
      /\ Edge \in Relations
  BY ListIs, EdgeIs DEF IsCycle, Last
<1>2. \A i \in 1..(n + 1) : <<c[i], c[i + 1]>> \in Edge
  BY <1>1 DEF IsCycle, Chain
<1>3. 0 \in S
  <2>1. <<c[1], c[2]>> \in Edge
    BY <1>1, <1>2
  <2> QED
    BY <1>1, <2>1, ReachedEdge
<1>4. ASSUME NEW k \in 0..(n - 1), k \in S PROVE k + 1 \in S
  <2>1. k + 2 \in 1..(n + 1) /\ (k + 2) + 1 = (k + 1) + 2 /\ k + 1 \in 0..n
    BY <1>1
  <2>2. <<c[k + 2], c[(k + 1) + 2]>> \in Edge
    BY <1>2, <2>1
  <2> QED
    BY <1>1, <1>4, <2>1, <2>2, ReachedOn
<1>5. n \in S
  <2> HIDE DEF S, n
  <2>1. \A k \in 0..n : k \in S
    BY <1>1, <1>3, <1>4, UpTo
  <2> QED
    BY <1>1, <2>1
<1>6. c[1] \in Reached(Edge, c[1]) /\ <<c[1], c[2]>> \in Edge
  BY <1>1, <1>2, <1>5
<1>7. c[1] \in DOMAIN edges
  BY <1>6, ReachedModules
<1> QED
  BY <1>6, <1>7 DEF Cyclic

\* The path grows along edges.
LEMMA ChainOn ==
    ASSUME NEW s \in Lists, NEW m \in GraphModules, Chain(s), s # <<>> => <<Last(s), m>> \in Edge
    PROVE  Chain(Append(s, m)) /\ Append(s, m) # <<>> /\ Last(Append(s, m)) = m
<1> DEFINE q == Append(s, m)
           n == Len(s)
<1>1. /\ q \in Lists /\ Len(q) = n + 1 /\ n \in Nat
      /\ \A i \in 1..n : q[i] = s[i]
      /\ q[n + 1] = m /\ q # <<>>
  BY DEF Lists
<1>2. n > 0 => s # <<>>
  OBVIOUS
<1> HIDE DEF q
<1>3. ASSUME NEW i \in 1..n PROVE <<q[i], q[i + 1]>> \in Edge
  <2>1. CASE i = n
    BY <1>1, <1>2, <2>1 DEF Last
  <2>2. CASE i # n
    <3>1. i \in 1..(n - 1) /\ i + 1 \in 1..n
      BY <1>1, <2>2
    <3> QED
      BY <1>1, <3>1 DEF Chain
  <2> QED
    BY <2>1, <2>2
<1>4. Chain(q)
  BY <1>1, <1>3 DEF Chain
<1>5. Last(q) = m
  BY <1>1 DEF Last
<1> QED
  BY <1>1, <1>4, <1>5 DEF q

\* Once a cycle is found nothing more is done.
LEMMA FoundStays ==
    ASSUME DependencyInv, NEW n \in Nat, NEW a, Found(a), NEW m \in GraphModules
    PROVE  Walking[n][<<a, m>>] = a
<1>1. a \in Walkers /\ a.cycle # <<>>
  BY DEF Found
<1>2. CASE n = 0
  BY <1>1, <1>2, WalkingIs
<1>3. CASE n # 0
  <2>1. Walking[n][<<a, m>>] = Walked(Walking[n - 1], m, a)
    BY <1>1, <1>3, WalkingIs
  <2> QED
    BY <1>1, <2>1 DEF Walked
<1> QED
  BY <1>2, <1>3

\* find_cycle_util at a module that was not visited, and at any.
LEMMA WalkLoop ==
    ASSUME DependencyInv, NEW n \in Nat, WalksFrom(n), NEW a, Searching(a), NEW m \in GraphModules,
           m \notin a.visited, Follows(a, m), Cardinality(GraphModules \ a.visited) <= n
    PROVE  Ends(a, m, Walked(Walking[n], m, a))
<1> DEFINE a0 == [a EXCEPT !.visited = @ \cup {m}, !.path = Append(@, m)]
           q == Deps(m)
           b == Along(Walking[n], a0, q)
           path == Append(a.path, m)
           Halfway(c) == /\ Searching(c) /\ c.path = path /\ a.visited \cup {m} \subseteq c.visited
           Holds == {x \in Nat \X Walkers :
                        \/ Found(x[2])
                        \/ Halfway(x[2]) /\ Upto(q, x[1]) \subseteq LeftBehind(x[2])}
<1>1. /\ a \in Walkers /\ a.path \in Lists /\ a.visited \in SUBSET GraphModules /\ m \notin ToSet(a.path)
      /\ a.cycle = <<>>
  BY DEF Searching, Walkers, Lists
<1>2. path \in Lists /\ ToSet(path) = ToSet(a.path) \cup {m}
  BY <1>1, AppendIs
<1>3. /\ a0 \in Walkers /\ a0.visited = a.visited \cup {m} /\ a0.path = path /\ a0.cycle = <<>>
  BY <1>1, <1>2 DEF Walkers, Lists
<1>4. Chain(path) /\ path # <<>> /\ Last(path) = m
  BY <1>1, ChainOn DEF Searching, Follows
<1> HIDE DEF a0, path
<1>5. LeftBehind(a0) = LeftBehind(a)
  BY <1>1, <1>2, <1>3 DEF LeftBehind
<1>6. Halfway(a0)
  BY <1>1, <1>2, <1>3, <1>4, <1>5 DEF Searching
<1>7. /\ q \in Lists /\ ToSet(q) = Succ(Edge, m) /\ Edge \in Relations /\ q \in Seq(GraphModules)
      /\ \A k \in 1..Len(q) : q[k] \in GraphModules /\ <<m, q[k]>> \in Edge
  <2>1. q \in Lists /\ ToSet(q) = Succ(Edge, m) /\ Edge \in Relations
    BY EdgeIs
  <2>2. \A k \in 1..Len(q) : q[k] \in ToSet(q)
    BY <2>1, ListIs
  <2> HIDE DEF q
  <2> QED
    BY <2>1, <2>2 DEF Succ, Lists
<1>8. Walking[n] \in [Walkers \X GraphModules -> Walkers]
  BY WalkingIs DEF WalkSteps
<1> HIDE DEF q
<1>9. <<0, a0>> \in Holds
  BY <1>3, <1>6, UptoNone
<1>10. Keeps(Walkers, Walking[n], q, Holds)
  <2> SUFFICES ASSUME NEW k \in 1..Len(q), NEW c \in Walkers, <<k - 1, c>> \in Holds
               PROVE  <<k, Walking[n][<<c, q[k]>>]>> \in Holds
    BY DEF Keeps
  <2> DEFINE d == q[k]
             e == Walking[n][<<c, d>>]
  <2>1. k \in Nat /\ k > 0 /\ Upto(q, k) = Upto(q, k - 1) \cup {d}
    <3>1. k \in Nat /\ k > 0
      BY <1>7, ListIs
    <3> QED
      BY <3>1, UptoNext
  <2>2. d \in GraphModules /\ <<m, d>> \in Edge
    BY <1>7
  <2>3. CASE Found(c)
    <3>1. e = c
      BY <2>2, <2>3, FoundStays
    <3> HIDE DEF e
    <3>2. <<k, e>> \in Holds
      BY <2>1, <2>3, <3>1
    <3> QED
      BY <3>2 DEF e
  <2>4. CASE Halfway(c) /\ Upto(q, k - 1) \subseteq LeftBehind(c)
    <3>1. Searching(c) /\ Follows(c, d)
      BY <1>4, <2>2, <2>4 DEF Follows
    <3>2. Cardinality(GraphModules \ c.visited) < n
      <4>1. /\ GraphModules \ a.visited \in SUBSET GraphModules
            /\ GraphModules \ c.visited \in SUBSET (GraphModules \ a.visited)
            /\ m \in GraphModules \ a.visited /\ m \notin GraphModules \ c.visited
        BY <2>4
      <4>2. /\ Cardinality(GraphModules \ c.visited) < Cardinality(GraphModules \ a.visited)
            /\ Cardinality(GraphModules \ c.visited) \in Nat /\ Cardinality(GraphModules \ a.visited) \in Nat
        BY <4>1, Fewer
      <4> QED
        BY <4>2
    <3> HIDE DEF d
    <3>3. Ends(c, d, e)
      BY <2>2, <3>1, <3>2 DEF WalksFrom
    <3> HIDE DEF e
    <3>4. CASE Found(e)
      BY <2>1, <3>4 DEF Found, d, e
    <3>5. CASE Searching(e) /\ e.path = c.path /\ c.visited \subseteq e.visited /\ d \in LeftBehind(e)
      <4>1. Halfway(e) /\ e \in Walkers
        BY <2>4, <3>5 DEF Searching
      <4>2. LeftBehind(c) \subseteq LeftBehind(e)
        BY <3>5 DEF LeftBehind
      <4>3. Upto(q, k) \subseteq LeftBehind(e)
        BY <2>1, <2>4, <3>5, <4>2
      <4>4. <<k, e>> \in Holds
        BY <2>1, <4>1, <4>3
      <4> QED
        BY <4>4 DEF e, d
    <3> QED
      BY <3>3, <3>4, <3>5 DEF Ends
  <2> QED
    BY <2>3, <2>4
<1>11. EndsIn(Walkers, b, q, Holds)
  <2> HIDE DEF Holds
  <2> QED
    BY ONLY <1>3, <1>7, <1>8, <1>9, <1>10, LoopInvariant, Zenon
<1> DEFINE r == IF b.cycle # <<>> THEN b ELSE [b EXCEPT !.path = a.path]
<1>12. Walked(Walking[n], m, a) = r
  <2>1. ~Closes(m, a)
    BY <1>1, ListIs DEF Closes
  <2> QED
    BY <1>1, <2>1 DEF Walked, a0, q
<1> HIDE DEF b
<1>13. CASE Found(b)
  <2>1. r = b
    BY <1>13 DEF Found
  <2> QED
    BY <1>12, <1>13, <2>1 DEF Ends
<1>14. CASE Halfway(b) /\ Upto(q, Len(q)) \subseteq LeftBehind(b)
  <2>1. b \in Walkers /\ b.cycle = <<>> /\ b.path = path
    BY <1>14 DEF Searching
  <2>2. r = [b EXCEPT !.path = a.path]
    BY <2>1
  <2>3. r \in Walkers /\ r.path = a.path /\ r.visited = b.visited /\ r.cycle = <<>>
    BY <1>1, <2>1, <2>2 DEF Walkers, Lists
  <2> HIDE DEF r
  <2>4. LeftBehind(r) = LeftBehind(b) \cup {m} /\ m \notin LeftBehind(b)
    BY <1>1, <1>2, <1>14, <2>1, <2>3 DEF LeftBehind
  <2>5. Succ(Edge, m) \subseteq LeftBehind(b)
    <3>1. Upto(q, Len(q)) = ToSet(q)
      BY <1>7, ListIs DEF Upto
    <3> QED
      BY <1>7, <1>14, <3>1
  <2>6. Leads(Edge, LeftBehind(b) \cup {m}, LeftBehind(b))
    <3> SUFFICES ASSUME NEW e \in Edge, e[1] \in LeftBehind(b) \cup {m} PROVE e[2] \in LeftBehind(b)
      BY DEF Leads
    <3>1. CASE e[1] = m
      <4>1. e[2] \in Succ(Edge, m)
        BY <1>7, <3>1 DEF Succ, Relations
      <4> QED
        BY <2>5, <4>1
    <3>2. CASE e[1] \in LeftBehind(b)
      BY <1>14, <3>2 DEF Searching, Leads
    <3> QED
      BY <3>1, <3>2
  <2>7. m \notin Reached(Edge, m)
    <3>1. LeftBehind(b) \in SUBSET GraphModules
      BY <2>1 DEF Walkers, LeftBehind
    <3>2. Reached(Edge, m) \subseteq LeftBehind(b)
      BY <1>7, <2>6, <3>1, ReachedLeast
    <3> QED
      BY <2>4, <3>2
  <2>8. Leads(Edge, LeftBehind(r), LeftBehind(r))
    BY <2>4, <2>6 DEF Leads
  <2>9. \A x \in LeftBehind(r) : x \notin Reached(Edge, x)
    BY <1>14, <2>4, <2>7 DEF Searching
  <2>10. Chain(r.path) /\ ToSet(r.path) \subseteq r.visited
    BY <1>14, <2>3 DEF Searching
  <2>11. Searching(r)
    BY <2>3, <2>8, <2>9, <2>10 DEF Searching
  <2>12. a.visited \subseteq r.visited /\ m \in LeftBehind(r)
    BY <1>14, <2>3, <2>4
  <2> QED
    BY <1>12, <2>3, <2>11, <2>12 DEF Ends
<1> QED
  BY <1>11, <1>13, <1>14 DEF EndsIn

\* The same of a module that may have been visited.
LEMMA WalkAny ==
    ASSUME DependencyInv, NEW n \in Nat, WalksFrom(n), NEW a, Searching(a), NEW m \in GraphModules,
           Follows(a, m), Cardinality(GraphModules \ a.visited) <= n
    PROVE  Ends(a, m, Walked(Walking[n], m, a))
<1>1. /\ a \in Walkers /\ a.path \in Lists /\ a.cycle = <<>>
      /\ Closes(m, a) <=> m \in ToSet(a.path)
  BY ListIs DEF Searching, Walkers, Lists, Closes
<1>2. CASE m \notin a.visited
  BY <1>2, WalkLoop
<1>3. CASE m \in a.visited /\ ~Closes(m, a)
  <2>1. Walked(Walking[n], m, a) = a
    BY <1>3 DEF Walked
  <2>2. m \in LeftBehind(a)
    BY <1>1, <1>3 DEF LeftBehind
  <2> QED
    BY <2>1, <2>2 DEF Ends
<1>4. CASE Closes(m, a)
  <2> DEFINE c == CyclePath(m, a.path)
             b == [a EXCEPT !.cycle = c]
  <2>1. Walked(Walking[n], m, a) = b
    BY <1>1, <1>4 DEF Walked
  <2>2. Contains(a.path, m) /\ Chain(a.path) /\ a.path # <<>>
    BY <1>1, <1>4, NoneIs DEF Closes, Searching
  <2>3. IsCycle(c) /\ c # <<>>
    BY <1>1, <2>2, CycleIsCycle DEF Follows
  <2> HIDE DEF c
  <2>4. b \in Walkers /\ b.cycle = c
    BY <1>1, <2>3 DEF Walkers, IsCycle, Lists
  <2> HIDE DEF b
  <2> QED
    BY <2>1, <2>3, <2>4 DEF Ends, Found
<1> QED
  BY <1>2, <1>3, <1>4

\* By induction on the depth.
LEMMA WalkDepth ==
    ASSUME DependencyInv, NEW n \in Nat
    PROVE  WalksFrom(n)
<1> DEFINE S == {k \in Nat : WalksFrom(k)}
<1>0. \A a \in Walkers : Cardinality(GraphModules \ a.visited) \in Nat
  <2> SUFFICES ASSUME NEW a \in Walkers PROVE Cardinality(GraphModules \ a.visited) \in Nat
    OBVIOUS
  <2>1. GraphModules \ a.visited \in SUBSET GraphModules
    OBVIOUS
  <2> QED
    BY <2>1, Fewer
<1>1. 0 \in S
  <2>1. \A a \in Walkers : ~ (Cardinality(GraphModules \ a.visited) < 0)
    BY <1>0
  <2> QED
    BY <2>1 DEF WalksFrom
<1>2. ASSUME NEW k \in Nat, WalksFrom(k) PROVE WalksFrom(k + 1)
  <2> SUFFICES ASSUME NEW a \in Walkers, NEW m \in GraphModules, Searching(a), Follows(a, m),
                      Cardinality(GraphModules \ a.visited) < k + 1
               PROVE  Ends(a, m, Walking[k + 1][<<a, m>>])
    BY DEF WalksFrom
  <2>1. k + 1 \in Nat /\ k + 1 > 0 /\ (k + 1) - 1 = k
    OBVIOUS
  <2>2. Walking[k + 1][<<a, m>>] = Walked(Walking[k], m, a)
    BY <2>1, WalkingIs
  <2>3. Cardinality(GraphModules \ a.visited) <= k
    BY <1>0
  <2> QED
    BY <1>2, <2>2, <2>3, WalkAny
<1>3. \A j \in 0..n : j \in S
  <2>1. \A j \in 0..(n - 1) : j \in S => j + 1 \in S
    BY <1>2
  <2> HIDE DEF S
  <2> QED
    BY <1>1, <2>1, UpTo
<1> QED
  BY <1>3

\* As many elements as the list has, when it has none twice.
LEMMA ListCount ==
    ASSUME NEW s \in Lists, IsInjective(s)
    PROVE  IsFiniteSet(ToSet(s)) /\ Cardinality(ToSet(s)) = Len(s)
<1> DEFINE n == Len(s)
<1>1. n \in Nat /\ DOMAIN s = 1..n /\ s \in [1..n -> ToSet(s)] /\ ToSet(s) = {s[i] : i \in 1..n}
  BY ListIs DEF Lists
<1> HIDE DEF n
<1>2. IsFiniteSet(1..n) /\ Cardinality(1..n) = n
  <2>1. 1 \in Int /\ n \in Int
    BY <1>1
  <2>2. IsFiniteSet(1..n) /\ Cardinality(1..n) = IF 1 > n THEN 0 ELSE n - 1 + 1
    BY ONLY <2>1, FS_Interval, Zenon
  <2> QED
    BY <1>1, <2>2
<1>3. s \in Surjection(1..n, ToSet(s))
  BY <1>1 DEF Surjection
<1>4. s \in Injection(1..n, ToSet(s))
  BY <1>1 DEF Injection, IsInjective
<1>5. /\ IsFiniteSet(ToSet(s))
      /\ Cardinality(ToSet(s)) = Cardinality(1..n) <=> s \in Injection(1..n, ToSet(s))
  BY <1>2, <1>3, FS_Surjection
<1> QED
  BY <1>2, <1>4, <1>5 DEF n

\* A HashMap hands out each of its keys once.
LEMMA KeysAre ==
    ASSUME DependencyInv, NEW keys \in KeyOrders
    PROVE  keys \in Lists /\ IsInjective(keys) /\ ToSet(keys) = DOMAIN edges
<1>1. PICK ks \in KeyLists : keys = Only(ks, DOMAIN edges)
  BY DEF KeyOrders
<1> DEFINE n == Cardinality(GraphModules)
<1>2. n \in Nat /\ IsFiniteSet(GraphModules)
  BY Fewer
<1>3. ks \in [1..n -> GraphModules] /\ \A i, j \in 1..n : i # j => ks[i] # ks[j]
  BY <1>1, DependencyGraphAssumption DEF DependencyGraphAssumption, SetToSeqs
<1>4. ks \in Lists /\ Len(ks) = n /\ IsInjective(ks)
  <2> HIDE DEF n
  <2> QED
    BY <1>2, <1>3 DEF Lists, IsInjective
<1>5. ToSet(ks) = GraphModules
  <2>1. Cardinality(ToSet(ks)) = n /\ ToSet(ks) \in SUBSET GraphModules
    BY <1>4, ListCount, ListIs
  <2> QED
    BY <1>2, <2>1, FS_Subset
<1>6. DOMAIN edges \in SUBSET GraphModules
  BY DEF DependencyInv, Mirrors, Links
<1>7. /\ Only(ks, DOMAIN edges) \in Lists /\ ToSet(Only(ks, DOMAIN edges)) = ToSet(ks) \cap DOMAIN edges
      /\ IsInjective(Only(ks, DOMAIN edges))
  BY <1>4, OnlyIs
<1> QED
  BY <1>1, <1>5, <1>6, <1>7

\* The loop of find_cycle over the keys, whatever their order.
LEMMA CycleFound ==
    ASSUME DependencyInv, NEW keys \in KeyOrders
    PROVE  /\ HasCycle(keys) <=> Cyclic
           /\ HasCycle(keys) => IsCycle(FindCycle(keys))
<1> DEFINE a == [visited |-> {}, path |-> <<>>, cycle |-> <<>>]
           step == Walking[Depth]
           b == Along(step, a, keys)
           Holds == {x \in Nat \X Walkers :
                        \/ Found(x[2])
                        \/ Searching(x[2]) /\ x[2].path = <<>> /\ Upto(keys, x[1]) \subseteq x[2].visited}
<1>1. keys \in Lists /\ keys \in Seq(GraphModules) /\ ToSet(keys) = DOMAIN edges
  BY KeysAre DEF Lists
<1>2. Cardinality(GraphModules) \in Nat /\ Depth \in Nat /\ Cardinality(GraphModules) < Depth
  <2>1. Cardinality(GraphModules) \in Nat
    BY Fewer
  <2> QED
    BY <2>1 DEF Depth
<1>3. step \in [Walkers \X GraphModules -> Walkers]
  BY <1>2, WalkingIs DEF WalkSteps
<1>4. a \in Walkers /\ a.visited = {} /\ a.path = <<>> /\ a.cycle = <<>>
  BY DEF Walkers
<1> HIDE DEF a, step
<1>5. <<0, a>> \in Holds
  <2>1. Chain(<<>>) /\ LeftBehind(a) = {}
    BY <1>4, NoneIs DEF Chain, LeftBehind
  <2>2. Searching(a)
    BY <1>4, <2>1, NoneIs DEF Searching, Leads
  <2> QED
    BY <1>4, <2>2, UptoNone
<1>6. Keeps(Walkers, step, keys, Holds)
  <2> SUFFICES ASSUME NEW k \in 1..Len(keys), NEW c \in Walkers, <<k - 1, c>> \in Holds
               PROVE  <<k, step[<<c, keys[k]>>]>> \in Holds
    BY DEF Keeps
  <2> DEFINE d == keys[k]
             e == step[<<c, d>>]
  <2>1. k \in Nat /\ k > 0 /\ Upto(keys, k) = Upto(keys, k - 1) \cup {d} /\ d \in GraphModules
    <3>1. k \in Nat /\ k > 0 /\ d \in GraphModules
      BY <1>1, ListIs
    <3> QED
      BY <3>1, UptoNext
  <2>2. CASE Found(c)
    <3>1. e = c
      BY <1>2, <2>1, <2>2, FoundStays DEF step
    <3> HIDE DEF e
    <3>2. <<k, e>> \in Holds
      BY <2>1, <2>2, <3>1
    <3> QED
      BY <3>2 DEF e
  <2>3. CASE Searching(c) /\ c.path = <<>> /\ Upto(keys, k - 1) \subseteq c.visited
    <3>1. Follows(c, d)
      BY <2>3 DEF Follows
    <3>2. Cardinality(GraphModules \ c.visited) < Depth
      <4>1. GraphModules \ c.visited \in SUBSET GraphModules
        OBVIOUS
      <4>2. /\ Cardinality(GraphModules \ c.visited) <= Cardinality(GraphModules)
            /\ Cardinality(GraphModules \ c.visited) \in Nat
        BY <4>1, Fewer
      <4> QED
        BY <1>2, <4>2
    <3> HIDE DEF d
    <3>3. WalksFrom(Depth)
      BY <1>2, WalkDepth
    <3>4. Ends(c, d, e)
      BY <2>1, <2>3, <3>1, <3>2, <3>3 DEF WalksFrom, step
    <3> HIDE DEF e
    <3>5. CASE Found(e)
      BY <2>1, <3>5 DEF Found, d, e
    <3>6. CASE Searching(e) /\ e.path = c.path /\ c.visited \subseteq e.visited /\ d \in LeftBehind(e)
      <4>1. e \in Walkers /\ e.path = <<>> /\ d \in e.visited
        BY <2>3, <3>6 DEF Searching, LeftBehind
      <4>2. Upto(keys, k) \subseteq e.visited
        BY <2>1, <2>3, <3>6, <4>1
      <4>3. <<k, e>> \in Holds
        BY <2>1, <3>6, <4>1, <4>2
      <4> QED
        BY <4>3 DEF e, d
    <3> QED
      BY <3>4, <3>5, <3>6 DEF Ends
  <2> QED
    BY <2>2, <2>3
<1>7. EndsIn(Walkers, b, keys, Holds)
  <2> HIDE DEF Holds
  <2> QED
    BY ONLY <1>1, <1>3, <1>4, <1>5, <1>6, LoopInvariant, Zenon
<1>8. FindCycle(keys) = b.cycle
  BY DEF FindCycle, b, a, step
<1> HIDE DEF b
<1>9. CASE Found(b)
  <2>1. IsCycle(b.cycle) /\ b.cycle # <<>>
    BY <1>9 DEF Found
  <2> QED
    BY <1>8, <2>1, CycleIsCyclic DEF HasCycle
<1>10. CASE Searching(b) /\ b.path = <<>> /\ Upto(keys, Len(keys)) \subseteq b.visited
  <2>1. b.cycle = <<>> /\ LeftBehind(b) = b.visited
    BY <1>10, NoneIs DEF Searching, LeftBehind
  <2>2. DOMAIN edges \subseteq b.visited
    BY <1>1, <1>10, ListIs DEF Upto
  <2>3. ~Cyclic
    BY <1>10, <2>1, <2>2 DEF Searching, Cyclic
  <2> QED
    BY <1>8, <2>1, <2>3 DEF HasCycle
<1> QED
  BY <1>7, <1>9, <1>10 DEF EndsIn

\* find_cycle finds a cycle exactly when there is one.
LEMMA CyclesHold == DependencyInv => CyclesFound
<1> SUFFICES ASSUME DependencyInv, NEW keys \in KeyOrders
             PROVE  LET cycle == FindCycle(keys) IN
                    /\ HasCycle(keys) <=> Cyclic
                    /\ HasCycle(keys) =>
                          /\ Len(cycle) > 1 /\ cycle[1] = Last(cycle)
                          /\ \A i \in 1..Len(cycle) - 1 : <<cycle[i], cycle[i + 1]>> \in Edge
  BY DEF CyclesFound
<1> QED
  BY CycleFound DEF IsCycle, Chain

-------------------------------------------------------------------------------
(* Kahn's sort.                                                            *)

\* What a queue of different modules is without its first, and what two of them make.
LEMMA HeadIs ==
    ASSUME NEW s \in Lists, s # <<>>, IsInjective(s)
    PROVE  /\ Head(s) \in ToSet(s) /\ Tail(s) \in Lists /\ IsInjective(Tail(s))
           /\ ToSet(Tail(s)) = ToSet(s) \ {Head(s)}
<1> DEFINE t == Tail(s)
           n == Len(s)
<1>1. /\ n \in Nat /\ n > 0 /\ t \in Lists /\ Len(t) = n - 1 /\ Head(s) = s[1]
      /\ \A i \in 1..(n - 1) : t[i] = s[i + 1]
  BY DEF Lists
<1>2. /\ DOMAIN s = 1..n /\ ToSet(s) = {s[i] : i \in 1..n}
      /\ DOMAIN t = 1..(n - 1) /\ ToSet(t) = {t[i] : i \in 1..(n - 1)}
  BY <1>1, ListIs
<1> HIDE DEF t, n
<1>3. \A i, j \in 1..n : s[i] = s[j] => i = j
  BY <1>2 DEF IsInjective
<1>4. IsInjective(t)
  <2> SUFFICES ASSUME NEW i \in 1..(n - 1), NEW j \in 1..(n - 1), t[i] = t[j] PROVE i = j
    BY <1>2 DEF IsInjective
  <2>1. i + 1 \in 1..n /\ j + 1 \in 1..n /\ s[i + 1] = s[j + 1]
    BY <1>1
  <2>2. i + 1 = j + 1
    BY <1>3, <2>1
  <2> QED
    BY <2>2
<1>5. \A x \in ToSet(t) : x \in ToSet(s) /\ x # s[1]
  <2> SUFFICES ASSUME NEW i \in 1..(n - 1) PROVE t[i] \in ToSet(s) /\ t[i] # s[1]
    BY <1>2
  <2>1. i + 1 \in 1..n /\ 1 \in 1..n /\ i + 1 # 1 /\ t[i] = s[i + 1]
    BY <1>1
  <2> QED
    BY <1>2, <1>3, <2>1
<1>6. \A x \in ToSet(s) : x # s[1] => x \in ToSet(t)
  <2> SUFFICES ASSUME NEW i \in 1..n, s[i] # s[1] PROVE s[i] \in ToSet(t)
    BY <1>2
  <2>1. i - 1 \in 1..(n - 1) /\ (i - 1) + 1 = i
    BY <1>1
  <2>2. t[i - 1] = s[i]
    BY <1>1, <2>1
  <2> QED
    BY <1>2, <2>1, <2>2
<1>7. s[1] \in ToSet(s)
  BY <1>1, <1>2
<1> QED
  BY <1>1, <1>4, <1>5, <1>6, <1>7 DEF t

\* Two queues that share nothing, one after the other.
LEMMA JoinedIs ==
    ASSUME NEW s \in Lists, NEW t \in Lists, IsInjective(s), IsInjective(t), ToSet(s) \cap ToSet(t) = {}
    PROVE  s \o t \in Lists /\ ToSet(s \o t) = ToSet(s) \cup ToSet(t) /\ IsInjective(s \o t)
<1> DEFINE q == s \o t
           n == Len(s)
           k == Len(t)
<1>1. /\ n \in Nat /\ k \in Nat /\ q \in Lists /\ Len(q) = n + k
      /\ \A i \in 1..(n + k) : q[i] = IF i <= n THEN s[i] ELSE t[i - n]
  BY DEF Lists
<1>2. /\ DOMAIN s = 1..n /\ ToSet(s) = {s[i] : i \in 1..n}
      /\ DOMAIN t = 1..k /\ ToSet(t) = {t[i] : i \in 1..k}
      /\ DOMAIN q = 1..(n + k) /\ ToSet(q) = {q[i] : i \in 1..(n + k)}
  BY <1>1, ListIs
<1> HIDE DEF q, n, k
<1>3. /\ \A i, j \in 1..n : s[i] = s[j] => i = j
      /\ \A i, j \in 1..k : t[i] = t[j] => i = j
      /\ \A i \in 1..n, j \in 1..k : s[i] # t[j]
  BY <1>2 DEF IsInjective
<1>4. ASSUME NEW i \in 1..(n + k), NEW j \in 1..(n + k), q[i] = q[j] PROVE i = j
  <2>1. i <= n => i \in 1..n /\ q[i] = s[i]
    BY <1>1
  <2>2. ~ (i <= n) => i - n \in 1..k /\ q[i] = t[i - n]
    BY <1>1
  <2>3. j <= n => j \in 1..n /\ q[j] = s[j]
    BY <1>1
  <2>4. ~ (j <= n) => j - n \in 1..k /\ q[j] = t[j - n]
    BY <1>1
  <2>5. CASE i <= n /\ j <= n
    BY <1>3, <1>4, <2>1, <2>3, <2>5
  <2>6. CASE ~ (i <= n) /\ ~ (j <= n)
    <3>1. i - n = j - n
      BY <1>3, <1>4, <2>2, <2>4, <2>6
    <3> QED
      BY <1>1, <3>1
  <2>7. CASE (i <= n /\ ~ (j <= n)) \/ (~ (i <= n) /\ j <= n)
    BY <1>3, <1>4, <2>1, <2>2, <2>3, <2>4, <2>7
  <2> QED
    BY <2>5, <2>6, <2>7
<1>5. \A x \in ToSet(q) : x \in ToSet(s) \cup ToSet(t)
  <2> SUFFICES ASSUME NEW i \in 1..(n + k) PROVE q[i] \in ToSet(s) \cup ToSet(t)
    BY <1>2
  <2>1. CASE i <= n
    <3>1. i \in 1..n /\ q[i] = s[i]
      BY <1>1, <2>1
    <3> QED
      BY <1>2, <3>1
  <2>2. CASE ~ (i <= n)
    <3>1. i - n \in 1..k /\ q[i] = t[i - n]
      BY <1>1, <2>2
    <3> QED
      BY <1>2, <3>1
  <2> QED
    BY <2>1, <2>2
<1>6. \A x \in ToSet(s) : x \in ToSet(q)
  <2> SUFFICES ASSUME NEW i \in 1..n PROVE s[i] \in ToSet(q)
    BY <1>2
  <2>1. i \in 1..(n + k) /\ q[i] = s[i]
    BY <1>1
  <2> QED
    BY <1>2, <2>1
<1>7. \A x \in ToSet(t) : x \in ToSet(q)
  <2> SUFFICES ASSUME NEW i \in 1..k PROVE t[i] \in ToSet(q)
    BY <1>2
  <2>1. i + n \in 1..(n + k) /\ ~ (i + n <= n) /\ (i + n) - n = i
    BY <1>1
  <2>2. q[i + n] = t[i]
    BY <1>1, <2>1
  <2> QED
    BY <1>2, <2>1, <2>2
<1>8. IsInjective(q)
  BY <1>2, <1>4 DEF IsInjective
<1> QED
  BY <1>1, <1>5, <1>6, <1>7, <1>8 DEF q

KahnStates == [queue : Lists, degree : [DOMAIN edges -> Int], result : Lists]

\* What Kahn's loop keeps true: what waits for nothing that is not out is out or queued.
Sorting(k) ==
    /\ IsInjective(k.result) /\ IsInjective(k.queue) /\ ToSet(k.result) \cap ToSet(k.queue) = {}
    /\ ToSet(k.result) \subseteq DOMAIN edges /\ ToSet(k.queue) \subseteq DOMAIN edges
    /\ \A x \in DOMAIN edges :
          /\ k.degree[x] = Cardinality(ToSet(edges[x]) \ ToSet(k.result))
          /\ x \in ToSet(k.result) \cup ToSet(k.queue) <=> k.degree[x] = 0
    /\ Ordered(Edge, k.result)

\* The two maps, as the sort reads them.
LEMMA GraphIs ==
    ASSUME DependencyInv
    PROVE  /\ DOMAIN edges \in SUBSET GraphModules /\ IsFiniteSet(DOMAIN edges)
           /\ \A m \in DOMAIN edges :
                 /\ edges[m] \in Lists /\ IsInjective(edges[m]) /\ ToSet(edges[m]) \subseteq DOMAIN edges
                 /\ reverseEdges[m] \in Lists /\ IsInjective(reverseEdges[m])
                 /\ ToSet(reverseEdges[m]) \subseteq DOMAIN edges
                 /\ ToSet(edges[m]) = Succ(Edge, m)
           /\ \A m, d \in DOMAIN edges : d \in ToSet(edges[m]) <=> m \in ToSet(reverseEdges[d])
<1>1. /\ DOMAIN edges \in SUBSET GraphModules
      /\ \A m \in DOMAIN edges :
                 /\ edges[m] \in Lists /\ IsInjective(edges[m]) /\ ToSet(edges[m]) \subseteq DOMAIN edges
                 /\ reverseEdges[m] \in Lists /\ IsInjective(reverseEdges[m])
                 /\ ToSet(reverseEdges[m]) \subseteq DOMAIN edges
      /\ \A m, d \in DOMAIN edges : d \in ToSet(edges[m]) <=> m \in ToSet(reverseEdges[d])
  BY DEF DependencyInv, Mirrors, Links
<1>2. \A m \in DOMAIN edges : ToSet(edges[m]) = Succ(Edge, m)
  BY <1>1, EdgeIs DEF Deps
<1>3. IsFiniteSet(DOMAIN edges)
  BY <1>1, Fewer
<1> QED
  BY <1>1, <1>2, <1>3

\* The queue and the degrees at first.
LEMMA StartSorting ==
    ASSUME DependencyInv, NEW keys \in KeyOrders
    PROVE  KahnStart(keys) \in KahnStates /\ Sorting(KahnStart(keys))
<1> DEFINE D == DOMAIN edges
           k == KahnStart(keys)
           S == {m \in D : WaitsFor(m) = 0}
<1>1. keys \in Lists /\ IsInjective(keys) /\ ToSet(keys) = D
  BY KeysAre
<1>2. /\ Only(keys, S) \in Lists /\ ToSet(Only(keys, S)) = ToSet(keys) \cap S
      /\ IsInjective(Only(keys, S))
  <2> HIDE DEF S
  <2> QED
    BY <1>1, OnlyIs
<1>3. \A m \in D : WaitsFor(m) \in Nat /\ WaitsFor(m) = Cardinality(ToSet(edges[m]))
  BY GraphIs, ListCount, ListIs DEF WaitsFor
<1>4. k.queue = Only(keys, S) /\ k.degree = [m \in D |-> WaitsFor(m)] /\ k.result = <<>>
  BY DEF KahnStart
<1>5. k \in KahnStates
  <2>1. [m \in D |-> WaitsFor(m)] \in [D -> Int]
    BY <1>3
  <2>2. k = [queue |-> Only(keys, S), degree |-> [m \in D |-> WaitsFor(m)], result |-> <<>>]
    BY DEF KahnStart
  <2> HIDE DEF k, S
  <2> QED
    BY <1>2, <2>1, <2>2, NoneIs DEF KahnStates
<1> HIDE DEF k
<1>6. ToSet(k.result) = {} /\ IsInjective(k.result) /\ Ordered(Edge, k.result)
  BY <1>4, NoneIs, NoneOrdered
<1>7. ToSet(k.queue) = S
  BY <1>1, <1>2, <1>4
<1>8. IsInjective(k.queue)
  BY <1>2, <1>4
<1>9. ASSUME NEW x \in D
      PROVE  /\ k.degree[x] = Cardinality(ToSet(edges[x]) \ ToSet(k.result))
             /\ x \in ToSet(k.result) \cup ToSet(k.queue) <=> k.degree[x] = 0
  <2>1. ToSet(edges[x]) \ ToSet(k.result) = ToSet(edges[x])
    BY <1>6
  <2> QED
    BY <1>3, <1>4, <1>6, <1>7, <2>1
<1>10. /\ ToSet(k.result) \cap ToSet(k.queue) = {}
       /\ ToSet(k.result) \subseteq D /\ ToSet(k.queue) \subseteq D
  BY <1>6, <1>7
<1>11. Sorting(k)
  <2> HIDE DEF S
  <2> QED
    BY <1>6, <1>8, <1>9, <1>10 DEF Sorting
<1> QED
  BY <1>5, <1>11 DEF k

\* One round of the loop.
LEMMA RoundSorting ==
    ASSUME DependencyInv, NEW k \in KahnStates, Sorting(k), k.queue # <<>>
    PROVE  /\ KahnRound(k) \in KahnStates /\ Sorting(KahnRound(k))
           /\ Len(KahnRound(k).result) = Len(k.result) + 1
<1> DEFINE D == DOMAIN edges
           m == Head(k.queue)
           out == ToSet(k.result)
           less == [x \in D |-> IF Contains(reverseEdges[m], x) THEN k.degree[x] - 1 ELSE k.degree[x]]
           S == {x \in D : less[x] = 0}
           fresh == Only(reverseEdges[m], S)
           j == KahnRound(k)
<1>1. /\ k.queue \in Lists /\ k.result \in Lists /\ k.degree \in [D -> Int]
  BY DEF KahnStates
<1>2. /\ m \in ToSet(k.queue) /\ Tail(k.queue) \in Lists /\ IsInjective(Tail(k.queue))
      /\ ToSet(Tail(k.queue)) = ToSet(k.queue) \ {m}
  BY <1>1, HeadIs DEF Sorting
<1>3. m \in D /\ m \notin out /\ m \in GraphModules /\ k.degree[m] = 0
  BY <1>2, GraphIs DEF Sorting
<1>4. j = [queue |-> Tail(k.queue) \o fresh, degree |-> less, result |-> Append(k.result, m)]
  BY DEF KahnRound
<1>5. /\ reverseEdges[m] \in Lists /\ IsInjective(reverseEdges[m])
      /\ \A x \in D : Contains(reverseEdges[m], x) <=> m \in ToSet(edges[x])
      /\ \A x \in ToSet(reverseEdges[m]) : x \in D /\ m \in ToSet(edges[x])
  BY <1>3, GraphIs, ListIs
<1>6. less \in [D -> Int] /\ \A x \in D : less[x] = IF m \in ToSet(edges[x]) THEN k.degree[x] - 1 ELSE k.degree[x]
  BY <1>1, <1>5
<1> HIDE DEF m, out, less, j
<1>7. /\ fresh \in Lists /\ IsInjective(fresh) /\ ToSet(fresh) = ToSet(reverseEdges[m]) \cap S
  <2> HIDE DEF S
  <2> QED
    BY <1>5, OnlyIs
<1>8. \A x : x \in ToSet(fresh) <=> x \in D /\ m \in ToSet(edges[x]) /\ less[x] = 0
  <2>1. \A x \in D : m \in ToSet(edges[x]) => x \in ToSet(reverseEdges[m])
    BY <1>3, GraphIs
  <2> QED
    BY <1>5, <1>7, <2>1
<1> HIDE DEF fresh, S
<1>9. /\ Append(k.result, m) \in Lists /\ ToSet(Append(k.result, m)) = out \cup {m}
      /\ IsInjective(Append(k.result, m)) /\ Len(Append(k.result, m)) = Len(k.result) + 1
  <2>1. Len(Append(k.result, m)) = Len(k.result) + 1
    BY <1>1, <1>3 DEF Lists
  <2> QED
    BY <1>1, <1>3, <2>1, AppendIs DEF Sorting, out
<1>10. ASSUME NEW x \in D
       PROVE  less[x] = Cardinality(ToSet(edges[x]) \ (out \cup {m}))
  <2>1. /\ k.degree[x] = Cardinality(ToSet(edges[x]) \ out)
        /\ ToSet(edges[x]) \ (out \cup {m}) = (ToSet(edges[x]) \ out) \ {m}
    BY DEF Sorting, out
  <2>2. IsFiniteSet(ToSet(edges[x]) \ out)
    <3>1. ToSet(edges[x]) \ out \in SUBSET DOMAIN edges
      BY GraphIs
    <3> QED
      BY <3>1, GraphIs, FS_Subset
  <2>3. Cardinality((ToSet(edges[x]) \ out) \ {m}) =
           IF m \in ToSet(edges[x]) \ out THEN Cardinality(ToSet(edges[x]) \ out) - 1
           ELSE Cardinality(ToSet(edges[x]) \ out)
    BY <2>2, FS_RemoveElement
  <2> QED
    BY <1>3, <1>6, <2>1, <2>3
<1>11. ToSet(Tail(k.queue)) \cap ToSet(fresh) = {}
  <2> SUFFICES ASSUME NEW x \in ToSet(Tail(k.queue)), x \in ToSet(fresh) PROVE FALSE
    OBVIOUS
  <2>1. x \in D /\ x \in ToSet(k.queue) /\ m \in ToSet(edges[x]) /\ less[x] = 0
    BY <1>2, <1>8
  <2>2. k.degree[x] = 0 /\ less[x] = k.degree[x] - 1
    BY <1>6, <2>1 DEF Sorting
  <2> QED
    BY <2>1, <2>2
<1>12. /\ Tail(k.queue) \o fresh \in Lists /\ IsInjective(Tail(k.queue) \o fresh)
       /\ ToSet(Tail(k.queue) \o fresh) = (ToSet(k.queue) \ {m}) \cup ToSet(fresh)
  BY <1>2, <1>7, <1>11, JoinedIs
<1>13. /\ j \in KahnStates /\ j.queue = Tail(k.queue) \o fresh /\ j.degree = less
       /\ j.result = Append(k.result, m)
  BY <1>4, <1>6, <1>9, <1>12 DEF KahnStates
<1>14. ASSUME NEW x \in D
       PROVE  x \in (out \cup {m}) \cup ToSet(j.queue) <=> less[x] = 0
  <2>1. x \in out \cup ToSet(k.queue) <=> k.degree[x] = 0
    BY DEF Sorting, out
  <2>2. x \in (out \cup {m}) \cup ToSet(j.queue) <=> x \in out \cup ToSet(k.queue) \cup ToSet(fresh)
    BY <1>2, <1>12, <1>13
  <2>3. CASE m \in ToSet(edges[x])
    <3>1. less[x] = k.degree[x] - 1 /\ (x \in ToSet(fresh) <=> less[x] = 0)
      BY <1>6, <1>8, <2>3
    <3>2. k.degree[x] # 0
      <4>1. m \in ToSet(edges[x]) \ out
        BY <1>3, <2>3
      <4>2. ToSet(edges[x]) \ out \in SUBSET DOMAIN edges
        BY GraphIs
      <4>3. IsFiniteSet(ToSet(edges[x]) \ out)
        BY <4>2, GraphIs, FS_Subset
      <4>4. Cardinality(ToSet(edges[x]) \ out) # 0
        BY <4>1, <4>3, FS_EmptySet
      <4> QED
        BY <4>4 DEF Sorting, out
    <3> QED
      BY <2>1, <2>2, <3>1, <3>2
  <2>4. CASE m \notin ToSet(edges[x])
    <3>1. less[x] = k.degree[x] /\ x \notin ToSet(fresh)
      BY <1>6, <1>8, <2>4
    <3> QED
      BY <2>1, <2>2, <3>1
  <2> QED
    BY <2>3, <2>4
<1>15. Ordered(Edge, j.result)
  <2>1. Succ(Edge, m) \subseteq out
    <3>1. Cardinality(ToSet(edges[m]) \ out) = 0
      BY <1>3 DEF Sorting, out
    <3>2. ToSet(edges[m]) \ out \in SUBSET DOMAIN edges
      BY <1>3, GraphIs
    <3>3. IsFiniteSet(ToSet(edges[m]) \ out)
      BY <3>2, GraphIs, FS_Subset
    <3>4. ToSet(edges[m]) \ out = {}
      BY <3>1, <3>3, FS_EmptySet
    <3> QED
      BY <1>3, <3>4, GraphIs
  <2>2. Edge \in Relations
    BY EdgeIs
  <2> QED
    BY <1>1, <1>3, <1>13, <2>1, <2>2, AppendOrdered DEF Sorting, out
<1>16. ToSet(j.result) = out \cup {m}
  BY <1>9, <1>13
<1>17. (out \cup {m}) \cap ToSet(j.queue) = {}
  <2>1. m \notin ToSet(fresh) /\ out \cap ToSet(fresh) = {}
    <3> SUFFICES ASSUME NEW x \in out \cup {m}, x \in ToSet(fresh) PROVE FALSE
      OBVIOUS
    <3>1. x \in D /\ m \in ToSet(edges[x]) /\ less[x] = 0
      BY <1>8
    <3>2. k.degree[x] = 0
      BY <1>3, <3>1 DEF Sorting, out
    <3> QED
      BY <1>6, <3>1, <3>2
  <2> QED
    BY <1>12, <1>13, <2>1 DEF Sorting, out
<1>18. out \cup {m} \subseteq D /\ ToSet(j.queue) \subseteq D
  BY <1>3, <1>8, <1>12, <1>13 DEF Sorting, out
<1>19. Sorting(j)
  BY <1>9, <1>10, <1>12, <1>13, <1>14, <1>15, <1>16, <1>17, <1>18 DEF Sorting
<1> QED
  BY <1>9, <1>13, <1>19 DEF j

\* The states of the loop, and a round that does nothing when the queue is empty.
Sorts == {k \in KahnStates : Sorting(k)}
RoundOf(k) == IF k.queue = <<>> THEN k ELSE KahnRound(k)

\* The loop ends with an empty queue.
LEMMA KahnRounds ==
    ASSUME DependencyInv, NEW keys \in KeyOrders
    PROVE  \E k \in Sorts : k.queue = <<>> /\ KahnOrder(keys) = k.result
<1> DEFINE n == Cardinality(DOMAIN edges) + 1
           g == [k \in Sorts |-> RoundOf(k)]
           b == KahnStart(keys)
           Body(f) == [i \in Nat |-> IF i = 0 THEN KahnStart(keys)
                                     ELSE IF f[i - 1].queue = <<>> THEN f[i - 1] ELSE KahnRound(f[i - 1])]
           kahn == CHOOSE f : f = Body(f)
<1>1. KahnOrder(keys) = kahn[n].result
  BY DEF KahnOrder
<1>2. b \in Sorts
  BY StartSorting DEF Sorts
<1>3. g \in [Sorts -> Sorts]
  BY RoundSorting DEF Sorts, RoundOf
<1>4. PICK h \in [Nat -> Sorts] : Iterates(h, b, g)
  <2> HIDE DEF b, g
  <2> QED
    BY <1>2, <1>3, IterationExists
<1>5. ASSUME NEW i \in Nat
      PROVE  h[i] = IF i = 0 THEN KahnStart(keys)
                    ELSE IF h[i - 1].queue = <<>> THEN h[i - 1] ELSE KahnRound(h[i - 1])
  <2>1. h[i] = IF i = 0 THEN b ELSE g[h[i - 1]]
    BY <1>4 DEF Iterates
  <2>2. CASE i = 0
    BY <2>1, <2>2
  <2>3. CASE i # 0
    <3>1. h[i - 1] \in Sorts
      BY <1>4, <2>3
    <3>2. g[h[i - 1]] = RoundOf(h[i - 1])
      BY <3>1
    <3> QED
      BY <2>1, <2>3, <3>2 DEF RoundOf
  <2> QED
    BY <2>2, <2>3
<1>6. h = Body(h)
  <2>1. h = [i \in Nat |-> h[i]]
    BY <1>4
  <2> QED
    BY <1>5, <2>1
<1>7. kahn = Body(kahn)
  BY <1>6
<1> HIDE DEF kahn
<1>8. \A i \in Nat : kahn[i] = h[i]
  <2> DEFINE S == {i \in Nat : kahn[i] = h[i]}
  <2>1. 0 \in S
    BY <1>5, <1>7
  <2>2. ASSUME NEW i \in Nat, i \in S PROVE i + 1 \in S
    <3>1. i + 1 \in Nat /\ i + 1 # 0 /\ (i + 1) - 1 = i
      OBVIOUS
    <3>2. kahn[i + 1] = IF kahn[i].queue = <<>> THEN kahn[i] ELSE KahnRound(kahn[i])
      BY <1>7, <3>1
    <3>3. h[i + 1] = IF h[i].queue = <<>> THEN h[i] ELSE KahnRound(h[i])
      BY <1>5, <3>1
    <3> QED
      BY <2>2, <3>1, <3>2, <3>3
  <2> HIDE DEF S
  <2> SUFFICES ASSUME NEW i \in Nat PROVE i \in S
    BY DEF S
  <2>3. \A k \in 0..(i - 1) : k \in S => k + 1 \in S
    BY <2>2
  <2> QED
    BY <2>1, <2>3, UpTo
<1>9. Cardinality(DOMAIN edges) \in Nat /\ n \in Nat
  <2>1. Cardinality(DOMAIN edges) \in Nat
    BY GraphIs, FS_CardinalityType
  <2> QED
    BY <2>1
<1>10. \A i \in 0..n : h[i].queue = <<>> \/ Len(h[i].result) = i
  <2> DEFINE S == {i \in Nat : h[i].queue = <<>> \/ Len(h[i].result) = i}
  <2>1. 0 \in S
    <3>1. h[0].result = <<>>
      <4>1. h[0] = KahnStart(keys)
        BY <1>5
      <4>2. KahnStart(keys).result = <<>>
        BY DEF KahnStart
      <4> QED
        BY <4>1, <4>2
    <3> QED
      BY <3>1
  <2>2. ASSUME NEW i \in Nat, i \in S PROVE i + 1 \in S
    <3>1. i + 1 \in Nat /\ i + 1 # 0 /\ (i + 1) - 1 = i
      OBVIOUS
    <3>2. h[i + 1] = IF h[i].queue = <<>> THEN h[i] ELSE KahnRound(h[i])
      BY <1>5, <3>1
    <3>3. CASE h[i].queue = <<>>
      BY <3>1, <3>2, <3>3
    <3>4. CASE h[i].queue # <<>>
      <4>1. h[i] \in KahnStates /\ Sorting(h[i])
        BY <1>4 DEF Sorts
      <4>2. Len(h[i + 1].result) = Len(h[i].result) + 1
        BY <3>2, <3>4, <4>1, RoundSorting
      <4> QED
        BY <2>2, <3>1, <3>4, <4>2
    <3> QED
      BY <3>3, <3>4
  <2> HIDE DEF S, n
  <2>3. \A i \in 0..n : i \in S
    BY <1>9, <2>1, <2>2, UpTo
  <2> QED
    BY <2>3 DEF S
<1>11. h[n] \in Sorts
  BY <1>4, <1>9
<1>12. h[n].queue = <<>>
  <2>1. Len(h[n].result) <= Cardinality(DOMAIN edges)
    <3>1. h[n].result \in Lists /\ IsInjective(h[n].result) /\ ToSet(h[n].result) \subseteq DOMAIN edges
      BY <1>11 DEF Sorts, KahnStates, Sorting
    <3>2. Cardinality(ToSet(h[n].result)) = Len(h[n].result)
      BY <3>1, ListCount
    <3>3. Cardinality(ToSet(h[n].result)) <= Cardinality(DOMAIN edges)
      BY <3>1, GraphIs, FS_Subset
    <3> QED
      BY <3>2, <3>3
  <2>2. n \in 0..n /\ Cardinality(DOMAIN edges) < n
    BY <1>9
  <2>3. h[n].queue = <<>> \/ Len(h[n].result) = n
    BY <1>10, <2>2
  <2> HIDE DEF n
  <2> QED
    BY <1>9, <2>1, <2>2, <2>3
<1>13. KahnOrder(keys) = h[n].result
  BY <1>1, <1>8, <1>9
<1> QED
  BY <1>11, <1>12, <1>13

\* What is not put out when nothing is queued waits for another that is not.
LEMMA SortedAll ==
    ASSUME DependencyInv, NEW k \in Sorts, k.queue = <<>>, ~Cyclic
    PROVE  ToSet(k.result) = DOMAIN edges
<1> DEFINE Z == DOMAIN edges \ ToSet(k.result)
<1>1. k \in KahnStates /\ Sorting(k) /\ ToSet(k.queue) = {}
  BY NoneIs DEF Sorts
<1>2. Edge \in Relations /\ Z \in SUBSET GraphModules
  BY EdgeIs, GraphIs
<1>3. ASSUME NEW x \in Z PROVE \E y \in Z : <<x, y>> \in Edge
  <2>1. Cardinality(ToSet(edges[x]) \ ToSet(k.result)) # 0
    BY <1>1, <1>3 DEF Sorting
  <2>2. ToSet(edges[x]) \ ToSet(k.result) # {}
    BY <2>1, FS_EmptySet
  <2>3. PICK y \in ToSet(edges[x]) : y \notin ToSet(k.result)
    BY <2>2
  <2>4. y \in DOMAIN edges /\ <<x, y>> \in Edge
    BY <1>3, <2>3, GraphIs DEF Succ
  <2> QED
    BY <2>3, <2>4
<1>4. Z = {}
  <2> SUFFICES ASSUME Z # {} PROVE FALSE
    OBVIOUS
  <2>1. \E x \in Z : x \in Reached(Edge, x)
    <3> HIDE DEF Z
    <3> QED
      BY <1>2, <1>3, Recurs
  <2> QED
    BY <2>1 DEF Cyclic
<1> QED
  BY <1>1, <1>4 DEF Sorting

\* topological_sort has an order exactly when there is no cycle, and it respects the edges.
LEMMA LoadOrderHolds == DependencyInv => LoadOrderRespectsEdges
<1> SUFFICES ASSUME DependencyInv, NEW keys \in KeyOrders, NEW others \in KeyOrders
             PROVE  LET load == LoadOrder(keys, others)
                        unload == UnloadOrder(keys, others)
                    IN  /\ load.failed <=> Cyclic
                        /\ ~Cyclic =>
                              /\ IsInjective(load.order) /\ ToSet(load.order) = DOMAIN edges
                              /\ ~unload.failed
                              /\ \A e \in Edge : Before(load.order, e[2], e[1]) /\ Before(unload.order, e[1], e[2])
  BY DEF LoadOrderRespectsEdges
<1> DEFINE load == LoadOrder(keys, others)
           unload == UnloadOrder(keys, others)
           order == KahnOrder(others)
           failed == HasCycle(keys) \/ Len(order) # Cardinality(DOMAIN edges)
<1>1. HasCycle(keys) <=> Cyclic
  BY CycleFound
<1>2. PICK k \in Sorts : k.queue = <<>> /\ order = k.result
  BY KahnRounds
<1>3. order \in Lists /\ IsInjective(order) /\ Ordered(Edge, order)
  BY <1>2 DEF Sorts, KahnStates, Sorting
<1>4. ~Cyclic => ToSet(order) = DOMAIN edges
  BY <1>2, SortedAll
<1>5. ~Cyclic => Len(order) = Cardinality(DOMAIN edges)
  BY <1>3, <1>4, ListCount
<1> HIDE DEF order
<1>6. load.order = order /\ load.failed = failed
  BY DEF LoadOrder, order
<1>7. unload.order = Reverse(order) /\ unload.failed = failed
  BY DEF LoadOrder, UnloadOrder, order
<1>8. failed <=> Cyclic
  BY <1>1, <1>5
<1> HIDE DEF load, unload, failed
<1>9. ASSUME ~Cyclic, NEW e \in Edge PROVE Before(order, e[2], e[1]) /\ Before(Reverse(order), e[1], e[2])
  <2>1. e[1] \in ToSet(order)
    BY <1>4, <1>9, EdgeIs
  <2>2. Before(order, e[2], e[1])
    BY <1>3, <2>1 DEF Ordered
  <2> QED
    BY <1>3, <2>2, ReverseBefore
<1>10. /\ load.failed <=> Cyclic
       /\ ~Cyclic =>
             /\ IsInjective(load.order) /\ ToSet(load.order) = DOMAIN edges
             /\ ~unload.failed
             /\ \A e \in Edge : Before(load.order, e[2], e[1]) /\ Before(unload.order, e[1], e[2])
  BY <1>3, <1>4, <1>6, <1>7, <1>8, <1>9
<1> QED
  BY <1>10 DEF load, unload

\* All that is said of the graph holds of maps that mirror each other.
LEMMA WalksHold == DependencyInv => WalksAgree
BY MirrorsHold, CyclesHold, LoadOrderHolds, CollectedHolds DEF WalksAgree

-------------------------------------------------------------------------------
(* The resolver.                                                           *)

ResolveSteps == [Resolvers \X Dependencies -> Resolvers]

\* The types of resolve_recursive and of the body of its loop.
LEMMA ResolveFromIs ==
    ASSUME LookupTypes, NEW below \in ResolveSteps, NEW m \in GraphModules, NEW a \in Resolvers
    PROVE  ResolveFrom(below, m, a) \in Resolvers
<1> DEFINE a0 == [a EXCEPT !.visiting = @ \cup {m}]
           b == Along(below, a0, declares[m])
           e == [b EXCEPT !.visiting = @ \ {m}, !.visited = @ \cup {m}, !.resolved = Append(@, m)]
<1>1. a0 \in Resolvers
  BY DEF Resolvers
<1>2. declares[m] \in Seq(Dependencies)
  BY DEF LookupTypes
<1>3. b \in Resolvers
  <2> HIDE DEF a0
  <2>1. below \in [Resolvers \X Dependencies -> Resolvers]
    BY DEF ResolveSteps
  <2> QED
    BY ONLY <1>1, <1>2, <2>1, AlongIs, Zenon
<1>4. [a EXCEPT !.failed = TRUE] \in Resolvers
  BY DEF Resolvers
<1>5. e \in Resolvers
  <2> HIDE DEF b
  <2>1. Append(b.resolved, m) \in Seq(GraphModules)
    BY <1>3 DEF Resolvers
  <2> QED
    BY <1>3, <2>1 DEF Resolvers
<1>6. ResolveFrom(below, m, a) = IF m \in a.visited THEN a
                                 ELSE IF m \in a.visiting \/ m \notin found THEN [a EXCEPT !.failed = TRUE]
                                 ELSE IF b.failed THEN b ELSE e
  BY DEF ResolveFrom
<1> HIDE DEF b, e
<1> QED
  BY <1>3, <1>4, <1>5, <1>6

\* The types of the body of its loop.
LEMMA ConsideredIs ==
    ASSUME LookupTypes, NEW below \in ResolveSteps, NEW d \in Dependencies, NEW a \in Resolvers
    PROVE  Considered(below, d, a) \in Resolvers
<1>1. d.on \in GraphModules
  BY DEF Dependencies
<1>2. [a EXCEPT !.failed = TRUE] \in Resolvers
  BY DEF Resolvers
<1>3. ResolveFrom(below, d.on, a) \in Resolvers
  BY <1>1, ResolveFromIs
<1> QED
  BY <1>2, <1>3 DEF Considered

\* The calls exist at every depth, and each is its body with the one below.
LEMMA ResolvingIs ==
    ASSUME LookupTypes
    PROVE  /\ Resolving \in [Nat -> ResolveSteps]
           /\ \A a \in Resolvers, d \in Dependencies : Resolving[0][<<a, d>>] = a
           /\ \A n \in Nat : n > 0 =>
                 \A a \in Resolvers, d \in Dependencies :
                    Resolving[n][<<a, d>>] = Considered(Resolving[n - 1], d, a)
<1> DEFINE X == Resolvers \X Dependencies
           g == [f \in ResolveSteps |-> [x \in X |-> Considered(f, x[2], x[1])]]
           b == [x \in X |-> x[1]]
           Body(f) == [n \in Nat |-> [x \in X |-> IF n = 0 THEN x[1]
                                                  ELSE Considered(f[n - 1], x[2], x[1])]]
<1>1. Resolving = CHOOSE f : f = Body(f)
  BY DEF Resolving
<1>2. b \in ResolveSteps
  BY DEF ResolveSteps
<1>3. \A f \in ResolveSteps, x \in X : Considered(f, x[2], x[1]) \in Resolvers
  BY ConsideredIs
<1>4. g \in [ResolveSteps -> ResolveSteps]
  BY <1>3 DEF ResolveSteps
<1>5. PICK h \in [Nat -> ResolveSteps] : Iterates(h, b, g)
  <2> HIDE DEF b, g
  <2> QED
    BY <1>2, <1>4, IterationExists
<1>6. ASSUME NEW n \in Nat
      PROVE  h[n] = [x \in X |-> IF n = 0 THEN x[1] ELSE Considered(h[n - 1], x[2], x[1])]
  <2>1. h[n] = IF n = 0 THEN b ELSE g[h[n - 1]]
    BY <1>5 DEF Iterates
  <2>2. CASE n = 0
    BY <2>1, <2>2
  <2>3. CASE n # 0
    <3>1. h[n - 1] \in ResolveSteps
      BY <1>5, <2>3
    <3>2. g[h[n - 1]] = [x \in X |-> Considered(h[n - 1], x[2], x[1])]
      BY <3>1
    <3> QED
      BY <2>1, <2>3, <3>2
  <2> QED
    BY <2>2, <2>3
<1>7. h = Body(h)
  <2>1. h = [n \in Nat |-> h[n]]
    BY <1>5
  <2> QED
    BY <1>6, <2>1
<1>8. Resolving = Body(Resolving)
  BY <1>1, <1>7
<1>9. \A n \in Nat : Resolving[n] = h[n]
  <2> DEFINE S == {n \in Nat : Resolving[n] = h[n]}
  <2>1. 0 \in S
    BY <1>6, <1>8
  <2>2. ASSUME NEW n \in Nat, n \in S PROVE n + 1 \in S
    <3>1. n + 1 \in Nat /\ n + 1 # 0 /\ (n + 1) - 1 = n
      OBVIOUS
    <3>2. Resolving[n + 1] = [x \in X |-> Considered(Resolving[n], x[2], x[1])]
      BY <1>8, <3>1
    <3>3. h[n + 1] = [x \in X |-> Considered(h[n], x[2], x[1])]
      BY <1>6, <3>1
    <3> QED
      BY <2>2, <3>1, <3>2, <3>3
  <2> HIDE DEF S
  <2> SUFFICES ASSUME NEW n \in Nat PROVE n \in S
    BY DEF S
  <2>3. \A k \in 0..(n - 1) : k \in S => k + 1 \in S
    BY <2>2
  <2> QED
    BY <2>1, <2>3, UpTo
<1>10. Resolving \in [Nat -> ResolveSteps]
  BY <1>5, <1>8, <1>9
<1>11. ASSUME NEW n \in Nat, n > 0, NEW a \in Resolvers, NEW d \in Dependencies
       PROVE  Resolving[n][<<a, d>>] = Considered(Resolving[n - 1], d, a)
  <2>1. Resolving[n] = Body(Resolving)[n]
    BY <1>8
  <2>2. Resolving[n] = [x \in X |-> Considered(Resolving[n - 1], x[2], x[1])]
    BY <1>11, <2>1
  <2>3. <<a, d>> \in X
    OBVIOUS
  <2> QED
    BY <2>2, <2>3
<1>12. ASSUME NEW a \in Resolvers, NEW d \in Dependencies PROVE Resolving[0][<<a, d>>] = a
  <2>1. <<a, d>> \in X /\ Resolving[0] = [x \in X |-> x[1]]
    BY <1>8
  <2> QED
    BY <2>1
<1> QED
  BY <1>10, <1>11, <1>12

\* A module that can be resolved as far as it goes itself.
Fitting(x) == \A i \in DOMAIN declares[x] : Skips(declares[x][i]) \/ declares[x][i].version = "fits"
Sound(x) == x \in found /\ x \notin Reached(Declared, x) /\ Fitting(x)
Trouble(r) == \E x \in Needed(r) : ~Sound(x)

\* What resolve_recursive keeps true on behalf of r as long as it has not given up.
Progress(r, a) ==
    /\ a \in Resolvers /\ a.failed = FALSE /\ IsInjective(a.resolved) /\ a.visited = ToSet(a.resolved)
    /\ a.visiting \cap a.visited = {} /\ Ordered(Declared, a.resolved)
    /\ Leads(Declared, a.visited, a.visited)
    /\ \A x \in a.visited : Sound(x) /\ x \in Needed(r)
GaveUp(r, a) == a \in Resolvers /\ a.failed = TRUE /\ Trouble(r)

\* What it need not look at again, what it is looking at, and that it came to m from there.
Underway(a) == a.visited \cup a.visiting
Comes(a, m) == \A x \in a.visiting : m \in Reached(Declared, x)
\* How a call at m ends: it has given up for a reason, or m is resolved.
Resolved(r, a, m, b) ==
    \/ GaveUp(r, b)
    \/ Progress(r, b) /\ b.visiting = a.visiting /\ a.visited \subseteq b.visited /\ m \in b.visited

\* A call that may go n deep.
ResolvesFrom(n, r) ==
    \A a \in Resolvers, d \in Dependencies :
        /\ Progress(r, a) /\ d.on \in Needed(r) /\ Comes(a, d.on) /\ ~Skips(d) /\ ~Refuses(d)
        /\ Cardinality(GraphModules \ Underway(a)) < n
        => Resolved(r, a, d.on, Resolving[n][<<a, d>>])

\* What the resolver follows are the declarations that it does not skip.
LEMMA DeclaredIs ==
    ASSUME LookupTypes
    PROVE  /\ Declared \in Relations
           /\ \A x \in GraphModules : \A y :
                 y \in Succ(Declared, x) <=>
                    /\ x \in found /\ y \in GraphModules
                    /\ \E i \in DOMAIN declares[x] : declares[x][i].on = y /\ ~Skips(declares[x][i])
<1>1. Declared \in Relations
  BY DEF Declared, Relations, LookupTypes
<1> QED
  BY <1>1 DEF Declared, Succ

\* What a needed module declares is needed.
LEMMA NeededOn ==
    ASSUME LookupTypes, NEW r, NEW x \in Needed(r), NEW y, <<x, y>> \in Declared
    PROVE  y \in Needed(r)
<1>1. CASE x = r
  BY <1>1, DeclaredIs, ReachedEdge DEF Needed
<1>2. CASE x \in Reached(Declared, r)
  BY <1>2, DeclaredIs, ReachedOn DEF Needed
<1> QED
  BY <1>1, <1>2 DEF Needed

\* An error ends every call.
LEMMA GaveUpStays ==
    ASSUME LookupTypes, NEW n \in Nat, NEW r, NEW a, GaveUp(r, a), NEW d \in Dependencies
    PROVE  Resolving[n][<<a, d>>] = a
<1>1. a \in Resolvers /\ a.failed = TRUE
  BY DEF GaveUp
<1>2. CASE n = 0
  BY <1>1, <1>2, ResolvingIs
<1>3. CASE n # 0
  <2>1. Resolving[n][<<a, d>>] = Considered(Resolving[n - 1], d, a)
    BY <1>1, <1>3, ResolvingIs
  <2> QED
    BY <1>1, <2>1 DEF Considered
<1> QED
  BY <1>2, <1>3

\* Where there is trouble, to give up is to have given up for a reason.
LEMMA GivesUp ==
    ASSUME NEW r, NEW a \in Resolvers, Trouble(r)
    PROVE  GaveUp(r, [a EXCEPT !.failed = TRUE])
<1> DEFINE b == [a EXCEPT !.failed = TRUE]
<1>1. b \in Resolvers /\ b.failed = TRUE
  BY DEF Resolvers
<1> HIDE DEF b
<1>2. GaveUp(r, b)
  BY <1>1 DEF GaveUp
<1> QED
  BY <1>2 DEF b

\* resolve_recursive at a module that it has not seen, and at any.
LEMMA ResolveLoop ==
    ASSUME LookupTypes, NEW r \in GraphModules, NEW n \in Nat, ResolvesFrom(n, r), NEW a, Progress(r, a),
           NEW m \in GraphModules, m \in Needed(r), m \notin a.visited, m \notin a.visiting, m \in found,
           Comes(a, m), Cardinality(GraphModules \ Underway(a)) <= n
    PROVE  Resolved(r, a, m, ResolveFrom(Resolving[n], m, a))
<1> DEFINE a0 == [a EXCEPT !.visiting = @ \cup {m}]
           q == declares[m]
           b == Along(Resolving[n], a0, q)
           Met(k, c) == \A i \in 1..k : Skips(q[i]) \/ (q[i].version = "fits" /\ q[i].on \in c.visited)
           Halfway(c) == Progress(r, c) /\ c.visiting = a.visiting \cup {m} /\ a.visited \subseteq c.visited
           Holds == {x \in Nat \X Resolvers : GaveUp(r, x[2]) \/ (Halfway(x[2]) /\ Met(x[1], x[2]))}
<1>1. /\ a \in Resolvers /\ a.resolved \in Lists /\ a.visited \in SUBSET GraphModules
      /\ a.visiting \in SUBSET GraphModules
  BY DEF Progress, Resolvers, Lists
<1>2. /\ a0 \in Resolvers /\ a0.visiting = a.visiting \cup {m} /\ a0.visited = a.visited
      /\ a0.resolved = a.resolved /\ a0.failed = a.failed
  BY <1>1 DEF Resolvers
<1>3. /\ q \in Seq(Dependencies) /\ Len(q) \in Nat /\ DOMAIN q = 1..Len(q)
      /\ \A k \in 1..Len(q) : q[k] \in Dependencies /\ q[k].on \in GraphModules
  <2>1. q \in Seq(Dependencies)
    BY DEF LookupTypes
  <2>2. \A d \in Dependencies : d.on \in GraphModules
    BY DEF Dependencies
  <2> HIDE DEF q
  <2> QED
    BY <2>1, <2>2
<1>4. Resolving[n] \in [Resolvers \X Dependencies -> Resolvers]
  BY ResolvingIs DEF ResolveSteps
<1>5. Declared \in Relations
  BY DeclaredIs
<1>6. \A k \in 1..Len(q) : ~Skips(q[k]) => <<m, q[k].on>> \in Declared
  BY <1>3 DEF Declared
<1> HIDE DEF a0
<1>7. <<0, a0>> \in Holds
  <2>1. Halfway(a0)
    BY <1>2 DEF Progress
  <2>2. Met(0, a0)
    OBVIOUS
  <2> HIDE DEF Halfway, Met
  <2> QED
    BY <1>2, <2>1, <2>2
<1>8. Keeps(Resolvers, Resolving[n], q, Holds)
  <2> SUFFICES ASSUME NEW k \in 1..Len(q), NEW c \in Resolvers, <<k - 1, c>> \in Holds
               PROVE  <<k, Resolving[n][<<c, q[k]>>]>> \in Holds
    BY DEF Keeps
  <2> DEFINE d == q[k]
             e == Resolving[n][<<c, d>>]
  <2>1. k \in Nat /\ k > 0 /\ d \in Dependencies /\ d.on \in GraphModules
    BY <1>3
  <2>2. \A i \in 1..k : i \in 1..(k - 1) \/ i = k
    BY <2>1
  <2>3. CASE GaveUp(r, c)
    <3>1. e = c
      BY <2>1, <2>3, GaveUpStays
    <3> HIDE DEF e
    <3>2. <<k, e>> \in Holds
      BY <2>1, <2>3, <3>1
    <3> QED
      BY <3>2 DEF e
  <2>4. CASE Halfway(c) /\ Met(k - 1, c)
    <3>1. Cardinality(GraphModules \ Underway(c)) < n /\ n > 0
      <4>1. /\ GraphModules \ Underway(a) \in SUBSET GraphModules
            /\ GraphModules \ Underway(c) \in SUBSET (GraphModules \ Underway(a))
            /\ m \in GraphModules \ Underway(a) /\ m \notin GraphModules \ Underway(c)
        BY <2>4 DEF Underway
      <4>2. /\ Cardinality(GraphModules \ Underway(c)) < Cardinality(GraphModules \ Underway(a))
            /\ Cardinality(GraphModules \ Underway(c)) \in Nat /\ Cardinality(GraphModules \ Underway(a)) \in Nat
        BY <4>1, Fewer
      <4> QED
        BY <4>2
    <3>2. e = Considered(Resolving[n - 1], d, c)
      BY <2>1, <3>1, ResolvingIs
    <3>3. c.failed = FALSE
      BY <2>4 DEF Progress
    <3>4. CASE Skips(d)
      <4>1. e = c
        BY <3>2, <3>4 DEF Considered
      <4>2. Met(k, c)
        BY <2>2, <2>4, <3>4
      <4> HIDE DEF e, Met, Halfway
      <4>3. <<k, e>> \in Holds
        BY <2>1, <2>4, <4>1, <4>2
      <4> QED
        BY <4>3 DEF e
    <3>5. CASE ~Skips(d) /\ Refuses(d)
      <4>1. e = [c EXCEPT !.failed = TRUE]
        BY <3>2, <3>3, <3>5 DEF Considered
      <4>2. <<m, d.on>> \in Declared
        BY <1>6, <3>5
      <4>3. d.on \in Needed(r)
        BY <4>2, NeededOn
      <4>4. Trouble(r)
        <5>1. CASE d.on \notin found
          BY <4>3, <5>1 DEF Trouble, Sound
        <5>2. CASE d.version # "fits"
          <6>1. ~Fitting(m)
            BY <1>3, <3>5, <5>2 DEF Fitting
          <6> QED
            BY <6>1 DEF Trouble, Sound
        <5> QED
          BY <3>5, <5>1, <5>2 DEF Refuses
      <4>5. GaveUp(r, e)
        BY <4>1, <4>4, GivesUp
      <4> HIDE DEF e
      <4>6. <<k, e>> \in Holds
        BY <2>1, <4>5 DEF GaveUp
      <4> QED
        BY <4>6 DEF e
    <3>6. CASE ~Skips(d) /\ ~Refuses(d)
      <4>1. <<m, d.on>> \in Declared
        BY <1>6, <3>6
      <4>2. d.on \in Needed(r)
        BY <4>1, NeededOn
      <4>3. Comes(c, d.on)
        <5> SUFFICES ASSUME NEW x \in a.visiting \cup {m} PROVE d.on \in Reached(Declared, x)
          BY <2>4 DEF Comes
        <5>1. CASE x = m
          BY <1>5, <4>1, <5>1, ReachedEdge
        <5>2. CASE x \in a.visiting
          BY <1>5, <4>1, <5>2, ReachedOn DEF Comes
        <5> QED
          BY <5>1, <5>2
      <4> HIDE DEF d
      <4>4. Resolved(r, c, d.on, e)
        BY <2>1, <2>4, <3>1, <3>6, <4>2, <4>3 DEF ResolvesFrom
      <4>5. d.version = "fits"
        BY <3>6 DEF Refuses
      <4> HIDE DEF e
      <4>6. CASE GaveUp(r, e)
        <5>1. <<k, e>> \in Holds
          BY <2>1, <4>6 DEF GaveUp
        <5> QED
          BY <5>1 DEF e, d
      <4>7. CASE Progress(r, e) /\ e.visiting = c.visiting /\ c.visited \subseteq e.visited /\ d.on \in e.visited
        <5>1. Halfway(e) /\ e \in Resolvers
          BY <2>4, <4>7 DEF Progress
        <5>2. Met(k, e)
          BY <2>2, <2>4, <4>5, <4>7 DEF d
        <5> HIDE DEF Halfway, Met
        <5>3. <<k, e>> \in Holds
          BY <2>1, <5>1, <5>2
        <5> QED
          BY <5>3 DEF e, d
      <4> QED
        BY <4>4, <4>6, <4>7 DEF Resolved
    <3> QED
      BY <3>4, <3>5, <3>6
  <2> QED
    BY <2>3, <2>4
<1>9. EndsIn(Resolvers, b, q, Holds)
  <2> HIDE DEF Holds, q
  <2> QED
    BY ONLY <1>2, <1>3, <1>4, <1>7, <1>8, LoopInvariant, Zenon
<1> DEFINE e == [b EXCEPT !.visiting = @ \ {m}, !.visited = @ \cup {m}, !.resolved = Append(@, m)]
<1>10. ResolveFrom(Resolving[n], m, a) = IF b.failed THEN b ELSE e
  BY DEF ResolveFrom, a0
<1> HIDE DEF b
<1>11. CASE GaveUp(r, b)
  BY <1>10, <1>11 DEF GaveUp, Resolved
<1>12. CASE Halfway(b) /\ Met(Len(q), b)
  <2>1. /\ b \in Resolvers /\ b.failed = FALSE /\ b.resolved \in Lists /\ b.visited = ToSet(b.resolved)
        /\ b.visiting = a.visiting \cup {m} /\ m \notin b.visited /\ b.visited \in SUBSET GraphModules
        /\ IsInjective(b.resolved) /\ Ordered(Declared, b.resolved)
    BY <1>12 DEF Progress, Resolvers, Lists
  <2>2. ResolveFrom(Resolving[n], m, a) = e
    BY <1>10, <2>1
  <2>3. /\ Append(b.resolved, m) \in Lists /\ ToSet(Append(b.resolved, m)) = b.visited \cup {m}
        /\ IsInjective(Append(b.resolved, m))
    BY <2>1, AppendIs
  <2>4. /\ e \in Resolvers /\ e.failed = FALSE /\ e.resolved = Append(b.resolved, m)
        /\ e.visited = b.visited \cup {m} /\ e.visiting = b.visiting \ {m}
    BY <2>1, <2>3 DEF Resolvers, Lists
  <2> HIDE DEF e
  <2>5. Succ(Declared, m) \subseteq b.visited
    BY <1>3, <1>12, DeclaredIs
  <2>6. Ordered(Declared, e.resolved)
    BY <1>5, <2>1, <2>4, <2>5, AppendOrdered
  <2>7. Leads(Declared, b.visited \cup {m}, b.visited)
    <3> SUFFICES ASSUME NEW x \in Declared, x[1] \in b.visited \cup {m} PROVE x[2] \in b.visited
      BY DEF Leads
    <3>1. CASE x[1] = m
      <4>1. x[2] \in Succ(Declared, m)
        BY <1>5, <3>1 DEF Succ, Relations
      <4> QED
        BY <2>5, <4>1
    <3>2. CASE x[1] \in b.visited
      BY <1>12, <3>2 DEF Progress, Leads
    <3> QED
      BY <3>1, <3>2
  <2>8. m \notin Reached(Declared, m)
    <3>1. Reached(Declared, m) \subseteq b.visited
      BY <1>5, <2>1, <2>7, ReachedLeast
    <3> QED
      BY <2>1, <3>1
  <2>9. Fitting(m)
    BY <1>3, <1>12 DEF Fitting
  <2>10. \A x \in e.visited : Sound(x) /\ x \in Needed(r)
    BY <1>12, <2>4, <2>8, <2>9 DEF Progress, Sound
  <2>11. Leads(Declared, e.visited, e.visited)
    BY <2>4, <2>7 DEF Leads
  <2>12. e.visiting = a.visiting /\ e.visiting \cap e.visited = {}
    <3>1. a.visiting \cap b.visited = {}
      BY <1>12 DEF Progress
    <3> QED
      BY <2>1, <2>4, <3>1
  <2>13. Progress(r, e)
    BY <2>3, <2>4, <2>6, <2>10, <2>11, <2>12 DEF Progress
  <2> QED
    BY <1>12, <2>2, <2>4, <2>12, <2>13 DEF Resolved
<1> QED
  BY <1>9, <1>11, <1>12 DEF EndsIn

\* The same of a module that may have been seen.
LEMMA ResolveAny ==
    ASSUME LookupTypes, NEW r \in GraphModules, NEW n \in Nat, ResolvesFrom(n, r), NEW a, Progress(r, a),
           NEW m \in GraphModules, m \in Needed(r), Comes(a, m),
           Cardinality(GraphModules \ Underway(a)) <= n
    PROVE  Resolved(r, a, m, ResolveFrom(Resolving[n], m, a))
<1>1. a \in Resolvers
  BY DEF Progress
<1>2. CASE m \in a.visited
  BY <1>2 DEF ResolveFrom, Resolved
<1>3. CASE m \notin a.visited /\ (m \in a.visiting \/ m \notin found)
  <2>1. ResolveFrom(Resolving[n], m, a) = [a EXCEPT !.failed = TRUE]
    BY <1>3 DEF ResolveFrom
  <2>2. ~Sound(m)
    BY <1>3 DEF Sound, Comes
  <2>3. Trouble(r)
    BY <2>2 DEF Trouble
  <2> QED
    BY <1>1, <2>1, <2>3, GivesUp DEF Resolved
<1>4. CASE m \notin a.visited /\ m \notin a.visiting /\ m \in found
  BY <1>4, ResolveLoop
<1> QED
  BY <1>2, <1>3, <1>4

\* By induction on the depth.
LEMMA ResolveDepth ==
    ASSUME LookupTypes, NEW r \in GraphModules, NEW n \in Nat
    PROVE  ResolvesFrom(n, r)
<1> DEFINE S == {k \in Nat : ResolvesFrom(k, r)}
<1>0. \A a \in Resolvers : Cardinality(GraphModules \ Underway(a)) \in Nat
  <2> SUFFICES ASSUME NEW a \in Resolvers PROVE Cardinality(GraphModules \ Underway(a)) \in Nat
    OBVIOUS
  <2>1. GraphModules \ Underway(a) \in SUBSET GraphModules
    OBVIOUS
  <2> QED
    BY <2>1, Fewer
<1>1. 0 \in S
  <2>1. \A a \in Resolvers : ~ (Cardinality(GraphModules \ Underway(a)) < 0)
    BY <1>0
  <2> QED
    BY <2>1 DEF ResolvesFrom
<1>2. ASSUME NEW k \in Nat, ResolvesFrom(k, r) PROVE ResolvesFrom(k + 1, r)
  <2> SUFFICES ASSUME NEW a \in Resolvers, NEW d \in Dependencies, Progress(r, a), d.on \in Needed(r),
                      Comes(a, d.on), ~Skips(d), ~Refuses(d), Cardinality(GraphModules \ Underway(a)) < k + 1
               PROVE  Resolved(r, a, d.on, Resolving[k + 1][<<a, d>>])
    BY DEF ResolvesFrom
  <2>1. k + 1 \in Nat /\ k + 1 > 0 /\ (k + 1) - 1 = k
    OBVIOUS
  <2>2. Resolving[k + 1][<<a, d>>] = Considered(Resolving[k], d, a)
    BY <2>1, ResolvingIs
  <2>3. Considered(Resolving[k], d, a) = ResolveFrom(Resolving[k], d.on, a)
    BY DEF Considered, Progress
  <2>4. Cardinality(GraphModules \ Underway(a)) <= k
    BY <1>0
  <2>5. d.on \in GraphModules
    BY DEF Dependencies
  <2> QED
    BY <1>2, <2>2, <2>3, <2>4, <2>5, ResolveAny
<1>3. \A j \in 0..n : j \in S
  <2>1. \A j \in 0..(n - 1) : j \in S => j + 1 \in S
    BY <1>2
  <2> HIDE DEF S
  <2> QED
    BY <1>1, <2>1, UpTo
<1> QED
  BY <1>3

\* resolve, from nothing.
LEMMA ResolveIs ==
    ASSUME LookupTypes, NEW m \in GraphModules
    PROVE  \/ Resolve(m).failed = TRUE /\ Trouble(m)
           \/ /\ Resolve(m).failed = FALSE /\ ~Trouble(m)
              /\ IsInjective(Resolve(m).resolved) /\ ToSet(Resolve(m).resolved) = Needed(m)
              /\ Ordered(Declared, Resolve(m).resolved)
<1> DEFINE a == [resolved |-> <<>>, visited |-> {}, visiting |-> {}, failed |-> FALSE]
           b == ResolveFrom(Resolving[Depth], m, a)
<1>1. /\ a \in Resolvers /\ a.resolved = <<>> /\ a.visited = {} /\ a.visiting = {} /\ a.failed = FALSE
  BY DEF Resolvers
<1> HIDE DEF a
<1>2. Progress(m, a) /\ Comes(a, m) /\ m \in Needed(m)
  BY <1>1, NoneIs, NoneOrdered DEF Progress, Comes, Needed, Leads
<1>3. Depth \in Nat /\ Cardinality(GraphModules \ Underway(a)) <= Depth
  <2>1. GraphModules \ Underway(a) = GraphModules
    BY <1>1 DEF Underway
  <2>2. Cardinality(GraphModules) \in Nat
    BY Fewer
  <2> QED
    BY <2>1, <2>2 DEF Depth
<1>4. Resolved(m, a, m, b)
  BY <1>2, <1>3, ResolveAny, ResolveDepth
<1>5. Resolve(m) = b
  BY DEF Resolve, a
<1> HIDE DEF b
<1>6. CASE GaveUp(m, b)
  BY <1>5, <1>6 DEF GaveUp
<1>7. CASE Progress(m, b) /\ m \in b.visited
  <2>1. b.visited \in SUBSET GraphModules /\ Leads(Declared, b.visited \cup {m}, b.visited)
    BY <1>7 DEF Progress, Resolvers, Leads
  <2>2. Reached(Declared, m) \subseteq b.visited
    BY <2>1, DeclaredIs, ReachedLeast
  <2>3. b.visited = Needed(m)
    BY <1>7, <2>2 DEF Progress, Needed
  <2> QED
    BY <1>5, <1>7, <2>3 DEF Progress, Trouble
<1> QED
  BY <1>4, <1>6, <1>7 DEF Resolved

\* A module is resolved exactly when nothing that it needs is in the way.
LEMMA ResolvesHold == DependencyInv => ResolvesWhatIsNeeded
<1> SUFFICES ASSUME LookupTypes, NEW m \in found
             PROVE  LET r == Resolve(m) IN
                    /\ ~r.failed <=>
                          /\ Needed(m) \subseteq found
                          /\ \A x \in Needed(m) : /\ x \notin Reached(Declared, x)
                                                  /\ \A i \in DOMAIN declares[x] :
                                                        Skips(declares[x][i]) \/ declares[x][i].version = "fits"
                    /\ ~r.failed =>
                          /\ IsInjective(r.resolved) /\ ToSet(r.resolved) = Needed(m)
                          /\ \A e \in Declared : e[1] \in Needed(m) => Before(r.resolved, e[2], e[1])
  BY DEF DependencyInv, ResolvesWhatIsNeeded
<1> DEFINE r == Resolve(m)
<1>1. m \in GraphModules
  BY DEF LookupTypes
<1>2. \/ r.failed = TRUE /\ Trouble(m)
      \/ /\ r.failed = FALSE /\ ~Trouble(m)
         /\ IsInjective(r.resolved) /\ ToSet(r.resolved) = Needed(m) /\ Ordered(Declared, r.resolved)
  BY <1>1, ResolveIs
<1>3. ~Trouble(m) <=>
         /\ Needed(m) \subseteq found
         /\ \A x \in Needed(m) : /\ x \notin Reached(Declared, x)
                                 /\ \A i \in DOMAIN declares[x] :
                                       Skips(declares[x][i]) \/ declares[x][i].version = "fits"
  BY DEF Trouble, Sound, Fitting
<1> HIDE DEF r
<1>4. CASE r.failed = TRUE /\ Trouble(m)
  BY <1>3, <1>4 DEF r
<1>5. CASE /\ r.failed = FALSE /\ ~Trouble(m)
           /\ IsInjective(r.resolved) /\ ToSet(r.resolved) = Needed(m) /\ Ordered(Declared, r.resolved)
  <2>1. \A e \in Declared : e[1] \in Needed(m) => Before(r.resolved, e[2], e[1])
    BY <1>5 DEF Ordered
  <2> QED
    BY <1>3, <1>5, <2>1 DEF r
<1> QED
  BY <1>2, <1>4, <1>5

\* What can be resolved has no conflict, and builds a graph that its order respects.
LEMMA AgreeHolds == DependencyInv => ResolvedModulesAgree
<1> SUFFICES ASSUME LookupTypes, NEW ms \in SUBSET found, \A m \in ms : ~Resolve(m).failed
             PROVE  /\ Conflicting(ms) = {}
                    /\ \A m \in ms : \A e \in Built(Needed(m)) : Before(Resolve(m).resolved, e[2], e[1])
  BY DEF DependencyInv, ResolvedModulesAgree
<1>1. ASSUME NEW m \in ms
      PROVE  /\ m \in GraphModules /\ ~Trouble(m) /\ ToSet(Resolve(m).resolved) = Needed(m)
             /\ Ordered(Declared, Resolve(m).resolved)
  <2>1. m \in GraphModules
    BY DEF LookupTypes
  <2> QED
    BY <2>1, ResolveIs
<1>2. ASSUME NEW d \in Conflicting(ms) PROVE FALSE
  <2> DEFINE wants == UNION {{<<m, i>> : i \in {j \in DOMAIN declares[m] : declares[m][j].on = d}} : m \in ms}
  <2>1. d \in found /\ \E w \in wants : declares[w[1]][w[2]].version = "differs"
    BY DEF Conflicting
  <2>2. PICK w \in wants : declares[w[1]][w[2]].version = "differs"
    BY <2>1
  <2>3. PICK m \in ms : w \in {<<m, i>> : i \in {j \in DOMAIN declares[m] : declares[m][j].on = d}}
    OBVIOUS
  <2>4. PICK i \in DOMAIN declares[m] : declares[m][i].on = d /\ w = <<m, i>>
    BY <2>3
  <2>5. declares[m][i].version = "differs" /\ ~Skips(declares[m][i])
    BY <2>1, <2>2, <2>4 DEF Skips
  <2>6. Fitting(m)
    BY <1>1 DEF Trouble, Sound, Needed
  <2> QED
    BY <2>5, <2>6 DEF Fitting
<1>3. ASSUME NEW m \in ms, NEW e \in Built(Needed(m)) PROVE Before(Resolve(m).resolved, e[2], e[1])
  <2>1. e \in Needed(m) \X found /\ \E i \in DOMAIN declares[e[1]] : declares[e[1]][i].on = e[2]
    BY DEF Built
  <2>2. e[1] \in found
    BY <1>1, <2>1 DEF Trouble, Sound
  <2>3. e \in Declared
    BY <2>1, <2>2 DEF Declared, Skips, LookupTypes
  <2> QED
    BY <1>1, <2>1, <2>3 DEF Ordered
<1> QED
  BY <1>2, <1>3

\* All that is said of the resolver holds, whatever is found and declared.
LEMMA ResolutionIsRight == DependencyInv => ResolutionHolds
BY ResolvesHold, AgreeHolds DEF ResolutionHolds

\* The invariant holds in every state.
LEMMA DependencyInvAlways == DependencySpec => []DependencyInv
<1> QED
  BY InitDependencyInv, NextDependencyInv, PTL DEF DependencySpec

\* Whatever is added to the dependency graph and removed from it, the two maps hold the same
\* edges; and whatever the order of a HashMap's keys, find_cycle finds a cycle exactly when
\* there is one, topological_sort has a load order exactly when there is none, in which every
\* module comes after its dependencies, and get_all_dependencies gives all that is reached.
THEOREM GraphWalksAlwaysAgree == DependencySpec => []WalksAgree
<1> QED
  BY DependencyInvAlways, WalksHold, PTL

\* Whatever the modules found declare, resolve gives the whole of what a module needs, in an
\* order in which it can be loaded, exactly when it is all there, fits and has no cycle; and
\* modules that can each be resolved have no version conflict.
THEOREM ResolutionAlwaysHolds == DependencySpec => []ResolutionHolds
<1> QED
  BY DependencyInvAlways, ResolutionIsRight, PTL
===============================================================================
