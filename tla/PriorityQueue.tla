---------------------------- MODULE PriorityQueue ----------------------------
(***************************************************************************)
(* What the request queue promises its callers, with no counter, lock or   *)
(* wake-up in sight: an offered item is refused or becomes pending, never  *)
(* more than Capacity items are pending, an item leaves once, and it       *)
(* leaves only when nothing pending outranks it: no item of a higher       *)
(* priority, and no item of its own priority whose enqueue call had        *)
(* already returned when its own call began.                               *)
(***************************************************************************)
EXTENDS Naturals, FiniteSets

CONSTANTS Items,        \* the requests, each offered at most once
          PriorityOf,   \* the priority of each item
          Capacity      \* how many items may be pending at once

VARIABLES offered,      \* items some enqueue call was made for
          pending,      \* items inside the queue
          accepted,     \* items whose enqueue call returned Ok
          taken,        \* items handed to a consumer
          before        \* before[x]: items accepted when x was offered

pqvars == <<offered, pending, accepted, taken, before>>

Outranks(y, x) ==
    \/ PriorityOf[y] > PriorityOf[x]
    \/ PriorityOf[y] = PriorityOf[x] /\ y \in before[x]

Init ==
    /\ offered = {} /\ pending = {} /\ accepted = {} /\ taken = {}
    /\ before = [x \in Items |-> {}]

\* An enqueue call begins (and may end here, refused).
Offer(x) ==
    /\ x \notin offered
    /\ offered' = offered \cup {x}
    /\ before' = [before EXCEPT ![x] = accepted]
    /\ UNCHANGED <<pending, accepted, taken>>

Insert(x) ==
    /\ x \in offered \ (pending \cup accepted \cup taken)
    /\ Cardinality(pending) < Capacity
    /\ pending' = pending \cup {x}
    /\ UNCHANGED <<offered, accepted, taken, before>>

\* The enqueue call returns Ok; a consumer may already have the item.
Return(x) ==
    /\ x \in offered \ accepted
    /\ accepted' = accepted \cup {x}
    /\ UNCHANGED <<offered, pending, taken, before>>

Take(x) ==
    /\ x \in pending
    /\ \A y \in pending : ~Outranks(y, x)
    /\ pending' = pending \ {x}
    /\ taken' = taken \cup {x}
    /\ UNCHANGED <<offered, accepted, before>>

Discard ==
    /\ pending' = {}
    /\ UNCHANGED <<offered, accepted, taken, before>>

Next ==
    \/ \E x \in Items : Offer(x) \/ Insert(x) \/ Return(x) \/ Take(x)
    \/ Discard

Spec == Init /\ [][Next]_pqvars
==============================================================================
