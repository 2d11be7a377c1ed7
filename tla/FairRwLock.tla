------------------------------ MODULE FairRwLock ------------------------------
(***************************************************************************)
(* tokio::sync::RwLock as src/ uses it: a lock value holds the tickets of  *)
(* those inside and the queue of those that wait.  Who asks goes to the    *)
(* end, readers too, so that a waiting writer keeps later readers out,     *)
(* also one that is inside already.  A ticket is a pair of a task and a    *)
(* kind; every kind but "write" reads.                                     *)
(***************************************************************************)
EXTENDS Sequences

Unlocked == [held |-> {}, queue |-> <<>>]

Ask(l, t, kind) == [l EXCEPT !.queue = Append(@, <<t, kind>>)]

\* The semaphore behind the lock serves its queue strictly in order.
MayEnter(l, t) ==
    /\ l.queue # <<>>
    /\ Head(l.queue)[1] = t
    /\ Head(l.queue)[2] = "write" => l.held = {}
    /\ \A h \in l.held : h[2] # "write"

Enter(l) == [held |-> l.held \cup {Head(l.queue)}, queue |-> Tail(l.queue)]
Leave(l, t, kind) == [l EXCEPT !.held = @ \ {<<t, kind>>}]

\* In and out again without an await in between.
Pass(l) == [l EXCEPT !.queue = Tail(@)]

WriteHeld(l) == \E h \in l.held : h[2] = "write"
===============================================================================
