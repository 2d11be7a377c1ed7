------------------------------- MODULE EventBus -------------------------------
(***************************************************************************)
(* The event bus of src/router/event_bus.rs: tasks that subscribe, cancel  *)
(* and disable subscriptions, tasks that publish events, and the callbacks *)
(* on tokio's blocking threads.  The subscriptions and the index that      *)
(* finds them by id sit behind an RwLock each, and no operation holds      *)
(* both.  Patterns and filters are the sets of events they let through.    *)
(***************************************************************************)
EXTENDS Naturals, FiniteSets

CONSTANTS Subs,          \* subscriptions, each made once
          Subscribers,
          SubscriberOf,  \* [Subs -> Subscribers]
          Wild,          \* those to the event type "*"
          Events,        \* each published once
          Wants,         \* [Subs -> SUBSET Events], by pattern and filter
          Panicking,     \* those whose callback may panic
          Tasks,         \* tasks that cancel, enable and disable
          Threads,       \* blocking threads
          MaxResets,     \* bound on calls of reset_stats
          MaxOps,        \* bound on what Tasks begin
          Nothing        \* no subscription

ASSUME BusAssumption ==
    /\ SubscriberOf \in [Subs -> Subscribers]
    /\ Wild \subseteq Subs /\ Panicking \subseteq Subs
    /\ Wants \in [Subs -> SUBSET Events]
    /\ IsFiniteSet(Subs) /\ IsFiniteSet(Events)
    /\ Threads \in Nat \ {0} /\ MaxResets \in Nat /\ MaxOps \in Nat
    /\ Nothing \notin Subs

VARIABLES concurrent,           \* config.concurrent_dispatch
          list, enabled,        \* subscriptions, and those with enabled set
          index,                \* subscription_index
          sub,                  \* progress of each subscribe
          tpc, target,          \* progress of each task; the subscription it is at
          todo,                 \* subscription_ids_to_remove, if in unsubscribe_all
          switch,               \* the flag set_subscription_enabled is to set
          event, mode,          \* progress of each publication, and its kind
          answer,               \* the number publish returns
          outcome, thread,      \* each call of a callback: its DispatchResult, its thread
          recorded,             \* calls in the statistics, now or before a reset
          stats,                \* total_dispatched, successful, failed, timeouts
          resets, ops,
          gone, covers,         \* subscriptions cancelled for good; to be, by unsubscribe_all
          forgotten             \* calls recorded before the last reset

subVars == <<concurrent, list, enabled, index, sub>>
taskVars == <<tpc, target, todo, switch, ops, gone, covers>>
eventVars == <<event, mode, answer>>
callVars == <<outcome, thread>>
statVars == <<recorded, stats, resets, forgotten>>
vars == <<subVars, taskVars, eventVars, callVars, statVars>>

\* The second call of a subscription is the one that find_matching_subscriptions
\* adds for "*".
Calls == Events \X Subs \X {1, 2}
EventOf(c) == c[1]
SubOf(c) == c[2]
Outcomes == {"success", "failed", "timeout"}
NoStats == [o \in Outcomes \cup {"total"} |-> 0]

Init ==
    /\ concurrent \in BOOLEAN
    /\ list = {} /\ enabled = {} /\ index = {}
    /\ sub = [s \in Subs |-> "none"]
    /\ tpc = [t \in Tasks |-> "idle"]
    /\ target = [t \in Tasks |-> Nothing]
    /\ todo = [t \in Tasks |-> {}]
    /\ switch = [t \in Tasks |-> FALSE]
    /\ event = [e \in Events |-> "new"]
    /\ mode = [e \in Events |-> "spawn"]
    /\ answer = [e \in Events |-> 0]
    /\ outcome = [c \in Calls |-> "none"]
    /\ thread = [c \in Calls |-> "none"]
    /\ recorded = {} /\ stats = NoStats /\ resets = 0 /\ forgotten = {}
    /\ ops = 0 /\ gone = {} /\ covers = [t \in Tasks |-> {}]

-------------------------------------------------------------------------------
(* subscribe() *)

Enlist(s) ==
    /\ sub[s] = "none"
    /\ list' = list \cup {s}
    /\ enabled' = enabled \cup {s}
    /\ sub' = [sub EXCEPT ![s] = "listed"]
    /\ UNCHANGED <<concurrent, index, taskVars, eventVars, callVars, statVars>>

Index(s) ==
    /\ sub[s] = "listed"
    /\ index' = index \cup {s}
    /\ sub' = [sub EXCEPT ![s] = "live"]
    /\ UNCHANGED <<concurrent, list, enabled, taskVars, eventVars, callVars, statVars>>

-------------------------------------------------------------------------------
(* unsubscribe() and unsubscribe_all(): the index is read, then the list   *)
(* changed, then the index                                                 *)

Begin(t) ==
    /\ tpc[t] = "idle"
    /\ ops < MaxOps
    /\ ops' = ops + 1

\* Whoever knows the id: subscribe has returned it.
Unsubscribe(t, s) ==
    /\ Begin(t)
    /\ sub[s] = "live"
    /\ s \in index
    /\ tpc' = [tpc EXCEPT ![t] = "found"]
    /\ target' = [target EXCEPT ![t] = s]
    /\ UNCHANGED <<subVars, todo, switch, gone, covers, eventVars, callVars, statVars>>

UnsubscribeNotFound(t, s) ==
    /\ tpc[t] = "idle"
    /\ sub[s] = "live"
    /\ s \notin index
    /\ gone' = gone \cup {s}
    /\ UNCHANGED <<subVars, tpc, target, todo, switch, ops, covers, eventVars, callVars, statVars>>

Unlist(t) ==
    /\ tpc[t] = "found"
    /\ list' = list \ {target[t]}
    /\ enabled' = enabled \ {target[t]}
    /\ tpc' = [tpc EXCEPT ![t] = "unlisted"]
    /\ UNCHANGED <<concurrent, index, sub, target, todo, switch, ops, gone, covers,
                   eventVars, callVars, statVars>>

\* The end of unsubscribe; unsubscribe_all goes on to the next.
Unindex(t) ==
    /\ tpc[t] = "unlisted"
    /\ index' = index \ {target[t]}
    /\ gone' = gone \cup {target[t]}
    /\ target' = [target EXCEPT ![t] = Nothing]
    /\ tpc' = [tpc EXCEPT ![t] = IF covers[t] = {} THEN "idle" ELSE "clearing"]
    /\ UNCHANGED <<concurrent, list, enabled, sub, todo, switch, ops, covers,
                   eventVars, callVars, statVars>>

LiveSubs(m) == {s \in Subs : SubscriberOf[s] = m /\ sub[s] = "live"}

\* Mutant: the ids are those of enabled subscriptions.
UnsubscribeEnabled(t, m) ==
    /\ Begin(t)
    /\ LiveSubs(m) # {}
    /\ todo' = [todo EXCEPT ![t] = {s \in index \cap enabled : SubscriberOf[s] = m}]
    /\ covers' = [covers EXCEPT ![t] = LiveSubs(m)]
    /\ tpc' = [tpc EXCEPT ![t] = "clearing"]
    /\ UNCHANGED <<subVars, target, switch, gone, eventVars, callVars, statVars>>

\* With nothing to remove the call changes nothing.
UnsubscribeAll(t, m) ==
    /\ Begin(t)
    /\ LiveSubs(m) # {}
    /\ todo' = [todo EXCEPT ![t] = {s \in index : SubscriberOf[s] = m}]
    /\ covers' = [covers EXCEPT ![t] = LiveSubs(m)]
    /\ tpc' = [tpc EXCEPT ![t] = "clearing"]
    /\ UNCHANGED <<subVars, target, switch, gone, eventVars, callVars, statVars>>

\* unsubscribe, with an error ignored.
ClearNext(t) ==
    /\ tpc[t] = "clearing"
    /\ \E s \in todo[t] :
          /\ todo' = [todo EXCEPT ![t] = @ \ {s}]
          /\ \/ /\ s \in index
                /\ target' = [target EXCEPT ![t] = s]
                /\ tpc' = [tpc EXCEPT ![t] = "found"]
             \/ s \notin index /\ UNCHANGED <<target, tpc>>
    /\ UNCHANGED <<subVars, switch, ops, gone, covers, eventVars, callVars, statVars>>

AllCleared(t) ==
    /\ tpc[t] = "clearing"
    /\ todo[t] = {}
    /\ tpc' = [tpc EXCEPT ![t] = "idle"]
    /\ gone' = gone \cup covers[t]
    /\ covers' = [covers EXCEPT ![t] = {}]
    /\ UNCHANGED <<subVars, target, todo, switch, ops, eventVars, callVars, statVars>>

-------------------------------------------------------------------------------
(* set_subscription_enabled() *)

SetEnabled(t, s, b) ==
    /\ Begin(t)
    /\ s \in index
    /\ target' = [target EXCEPT ![t] = s]
    /\ switch' = [switch EXCEPT ![t] = b]
    /\ tpc' = [tpc EXCEPT ![t] = "setting"]
    /\ UNCHANGED <<subVars, todo, gone, covers, eventVars, callVars, statVars>>

\* Mutant: the entry that was found is written back.
WriteBack(t) ==
    /\ tpc[t] = "setting"
    /\ list' = list \cup {target[t]}
    /\ enabled' = IF switch[t] THEN enabled \cup {target[t]} ELSE enabled \ {target[t]}
    /\ target' = [target EXCEPT ![t] = Nothing]
    /\ switch' = [switch EXCEPT ![t] = FALSE]
    /\ tpc' = [tpc EXCEPT ![t] = "idle"]
    /\ UNCHANGED <<concurrent, index, sub, todo, ops, gone, covers,
                   eventVars, callVars, statVars>>

\* The subscription may be gone by now: an error.
ApplyEnabled(t) ==
    /\ tpc[t] = "setting"
    /\ enabled' = IF switch[t] THEN enabled \cup ({target[t]} \cap list)
                               ELSE enabled \ {target[t]}
    /\ target' = [target EXCEPT ![t] = Nothing]
    /\ switch' = [switch EXCEPT ![t] = FALSE]
    /\ tpc' = [tpc EXCEPT ![t] = "idle"]
    /\ UNCHANGED <<concurrent, list, index, sub, todo, ops, gone, covers,
                   eventVars, callVars, statVars>>

-------------------------------------------------------------------------------
(* publish() and publish_sync() *)

Matching(e) == {s \in list \cap enabled : e \in Wants[s]}

CallsFor(e) ==
    {<<e, s, 1>> : s \in Matching(e)} \cup {<<e, s, 2>> : s \in Matching(e) \cap Wild}

MadeFor(e) == {c \in Calls : EventOf(c) = e /\ outcome[c] # "none"}

\* "spawn" is publish with concurrent_dispatch, "sequence" without, "sync"
\* is publish_sync.  But in sequence, each call gets a task, which starts its
\* timer and queues for a thread (invoke_callback_with_timeout).
Publish(e, how) ==
    /\ event[e] = "new"
    /\ how \in {"sync", IF concurrent THEN "spawn" ELSE "sequence"}
    /\ outcome' = [c \in Calls |-> IF c \notin CallsFor(e) THEN outcome[c]
                                   ELSE IF how = "sequence" THEN "planned" ELSE "waiting"]
    /\ thread' = [c \in Calls |-> IF c \in CallsFor(e) /\ how # "sequence" THEN "queued"
                                                                         ELSE thread[c]]
    /\ answer' = [answer EXCEPT ![e] = Cardinality(CallsFor(e))]
    /\ mode' = [mode EXCEPT ![e] = how]
    /\ event' = [event EXCEPT ![e] =
                    IF how = "spawn" \/ CallsFor(e) = {} THEN "returned" ELSE "awaiting"]
    /\ UNCHANGED <<subVars, taskVars, statVars>>

\* dispatch_sequential: one after the other, in no order we know.
Invoke(c) ==
    /\ outcome[c] = "planned"
    /\ \A d \in MadeFor(EventOf(c)) : outcome[d] = "planned" \/ d \in recorded
    /\ outcome' = [outcome EXCEPT ![c] = "waiting"]
    /\ thread' = [thread EXCEPT ![c] = "queued"]
    /\ UNCHANGED <<subVars, taskVars, eventVars, statVars>>

RunningCalls == {c \in Calls : thread[c] = "running"}

BeginCallback(c) ==
    /\ thread[c] = "queued"
    /\ Cardinality(RunningCalls) < Threads
    /\ thread' = [thread EXCEPT ![c] = "running"]
    /\ UNCHANGED <<subVars, taskVars, eventVars, outcome, statVars>>

\* Mutant: a late return replaces the timeout.
EndLate(c, how) ==
    /\ thread[c] = "running"
    /\ how = "failed" => SubOf(c) \in Panicking
    /\ thread' = [thread EXCEPT ![c] = "over"]
    /\ outcome' = [outcome EXCEPT ![c] = how]
    /\ UNCHANGED <<subVars, taskVars, eventVars, statVars>>

\* The callback returns or panics (catch_unwind); nobody may be waiting.
EndCallback(c, how) ==
    /\ thread[c] = "running"
    /\ how = "failed" => SubOf(c) \in Panicking
    /\ thread' = [thread EXCEPT ![c] = "over"]
    /\ outcome' = [outcome EXCEPT ![c] = IF @ = "waiting" THEN how ELSE @]
    /\ UNCHANGED <<subVars, taskVars, eventVars, statVars>>

\* Mutant: the timer starts when the callback does.
ExpireRunning(c) ==
    /\ outcome[c] = "waiting"
    /\ thread[c] = "running"
    /\ outcome' = [outcome EXCEPT ![c] = "timeout"]
    /\ UNCHANGED <<subVars, taskVars, eventVars, thread, statVars>>

\* The wait is over, the callback is not: it runs on, or has yet to begin.
Expire(c) ==
    /\ outcome[c] = "waiting"
    /\ outcome' = [outcome EXCEPT ![c] = "timeout"]
    /\ UNCHANGED <<subVars, taskVars, eventVars, thread, statVars>>

With(o, C) == Cardinality({c \in C : outcome[c] = o})

\* Under stats.write(): the results of the calls in C.
AddToStats(C) ==
    /\ recorded' = recorded \cup C
    /\ stats' = [o \in DOMAIN stats |->
                    stats[o] + IF o = "total" THEN Cardinality(C) ELSE With(o, C)]

\* publish: each call by itself, as it ends.
Record(c) ==
    /\ mode[EventOf(c)] # "sync"
    /\ outcome[c] \in Outcomes /\ c \notin recorded
    /\ AddToStats({c})
    /\ UNCHANGED <<subVars, taskVars, eventVars, callVars, resets, forgotten>>

ReturnSequence(e) ==
    /\ event[e] = "awaiting" /\ mode[e] = "sequence"
    /\ MadeFor(e) \subseteq recorded
    /\ event' = [event EXCEPT ![e] = "returned"]
    /\ UNCHANGED <<subVars, taskVars, mode, answer, callVars, statVars>>

\* publish_sync: all together, when the last has ended.
ReturnSync(e) ==
    /\ event[e] = "awaiting" /\ mode[e] = "sync"
    /\ \A c \in MadeFor(e) : outcome[c] \in Outcomes
    /\ AddToStats(MadeFor(e))
    /\ event' = [event EXCEPT ![e] = "returned"]
    /\ UNCHANGED <<subVars, taskVars, mode, answer, callVars, resets, forgotten>>

ResetStats ==
    /\ resets < MaxResets
    /\ stats' = NoStats
    /\ forgotten' = recorded
    /\ resets' = resets + 1
    /\ UNCHANGED <<subVars, taskVars, eventVars, callVars, recorded>>

-------------------------------------------------------------------------------
CancelStep(t) == Unlist(t) \/ Unindex(t) \/ ClearNext(t) \/ AllCleared(t) \/ ApplyEnabled(t)

CallStep(c) == Invoke(c) \/ Expire(c) \/ Record(c)

ReturnStep(e) == ReturnSequence(e) \/ ReturnSync(e)

Next ==
    \/ \E s \in Subs : Enlist(s) \/ Index(s)
    \/ \E t \in Tasks, s \in Subs : Unsubscribe(t, s) \/ UnsubscribeNotFound(t, s)
    \/ \E t \in Tasks, m \in Subscribers : UnsubscribeAll(t, m)
    \/ \E t \in Tasks, s \in Subs, b \in BOOLEAN : SetEnabled(t, s, b)
    \/ \E t \in Tasks : CancelStep(t)
    \/ \E e \in Events, how \in {"spawn", "sequence", "sync"} : Publish(e, how)
    \/ \E c \in Calls : CallStep(c) \/ BeginCallback(c)
    \/ \E c \in Calls, how \in {"success", "failed"} : EndCallback(c, how)
    \/ \E e \in Events : ReturnStep(e)
    \/ ResetStats

Spec == Init /\ [][Next]_vars

\* The task of a call goes on, and its timer fires; publishers go on.  A
\* callback need not return, and nothing is asked of the blocking threads.
FairSpec ==
    /\ Spec
    /\ \A c \in Calls : WF_vars(CallStep(c))
    /\ \A e \in Events : WF_vars(ReturnStep(e))

-------------------------------------------------------------------------------
(* What must hold *)

\* Every variable keeps its type.
TypeOK ==
    /\ concurrent \in BOOLEAN
    /\ list \subseteq Subs /\ enabled \subseteq list /\ index \subseteq Subs
    /\ sub \in [Subs -> {"none", "listed", "live"}]
    /\ tpc \in [Tasks -> {"idle", "found", "unlisted", "clearing", "setting"}]
    /\ target \in [Tasks -> Subs \cup {Nothing}]
    /\ todo \in [Tasks -> SUBSET Subs]
    /\ switch \in [Tasks -> BOOLEAN]
    /\ event \in [Events -> {"new", "awaiting", "returned"}]
    /\ mode \in [Events -> {"spawn", "sequence", "sync"}]
    /\ answer \in [Events -> Nat]
    /\ outcome \in [Calls -> {"none", "planned", "waiting"} \cup Outcomes]
    /\ thread \in [Calls -> {"none", "queued", "running", "over"}]
    /\ recorded \subseteq Calls /\ forgotten \subseteq recorded
    /\ stats \in [Outcomes \cup {"total"} -> Nat]
    /\ resets \in 0..MaxResets /\ ops \in 0..MaxOps
    /\ gone \subseteq Subs /\ covers \in [Tasks -> SUBSET Subs]

\* The list and the index, which no operation changes together, differ in a
\* subscription only while some call is between them.
ListIndexAgree ==
    \A s \in Subs : (s \in list) # (s \in index) =>
        \/ sub[s] = "listed"
        \/ \E t \in Tasks : tpc[t] = "unlisted" /\ target[t] = s

\* After any call that cancels a subscription has returned, be it with an
\* error because another was faster, no event reaches the subscription:
\* events published from then on do not find it.
GoneForGood == gone \cap list = {}

\* The statistics count each call that ended since the last reset once, by
\* the result its publisher saw, whatever the callback did after a timeout.
StatsAccounted ==
    LET counted == recorded \ forgotten
    IN  /\ stats["total"] = Cardinality(counted)
        /\ \A o \in Outcomes : stats[o] = With(o, counted)

\* publish_sync, and publish without concurrency, return although callbacks
\* hang and take every blocking thread with them.
PublishReturns == \A e \in Events : event[e] = "awaiting" ~> event[e] = "returned"

-------------------------------------------------------------------------------
(* What the source says and the code does not do *)

\* publish, "returns the number of matching subscribers".
AnswerCountsSubscribers ==
    [][\A e \in Events, how \in {"spawn", "sequence", "sync"} :
          Publish(e, how) => answer'[e] = Cardinality(Matching(e))]_vars
===============================================================================
