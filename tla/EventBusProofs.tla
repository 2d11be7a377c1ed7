---------------------------- MODULE EventBusProofs ----------------------------
(***************************************************************************)
(* Theorems about EventBus, for any number of subscriptions, events, tasks *)
(* and threads: list and index agree when no call is between them, what    *)
(* has been cancelled is found by no later event, and the statistics count *)
(* every ended call once.                                                  *)
(***************************************************************************)
EXTENDS EventBus, FiniteSetTheorems, TLAPS

-------------------------------------------------------------------------------
(* Counting calls *)

LEMMA CallsFinite == IsFiniteSet(Calls)
<1> DEFINE Pairs == (Events \X Subs) \X {1, 2}
           F == [c \in Calls |-> <<<<c[1], c[2]>>, c[3]>>]
<1>1. IsFiniteSet({1, 2})
  <2>1. IsFiniteSet({1})
    BY FS_Singleton
  <2>2. IsFiniteSet({1} \cup {2})
    BY <2>1, FS_AddElement
  <2>3. {1, 2} = {1} \cup {2}
    OBVIOUS
  <2> QED
    BY <2>2, <2>3
<1>2. IsFiniteSet(Pairs)
  <2>1. IsFiniteSet(Events \X Subs)
    BY BusAssumption, FS_Product DEF BusAssumption
  <2> QED
    BY <1>1, <2>1, FS_Product
<1>3. F \in Injection(Calls, Pairs)
  <2>1. F \in [Calls -> Pairs]
    BY DEF Calls
  <2>2. \A c, d \in Calls : F[c] = F[d] => c = d
    BY DEF Calls
  <2> QED
    BY <2>1, <2>2 DEF Injection, IsInjective
<1> QED
  BY <1>2, <1>3, FS_Injection

\* What With counts.
LEMMA WithType ==
    ASSUME NEW o, NEW C \in SUBSET Calls
    PROVE  /\ IsFiniteSet(C) /\ Cardinality(C) \in Nat
           /\ IsFiniteSet({c \in C : outcome[c] = o}) /\ With(o, C) \in Nat
<1>1. IsFiniteSet(C) /\ Cardinality(C) \in Nat
  BY CallsFinite, FS_Subset, FS_CardinalityType
<1>2. IsFiniteSet({c \in C : outcome[c] = o})
  BY <1>1, FS_Subset
<1> QED
  BY <1>1, <1>2, FS_CardinalityType DEF With

-------------------------------------------------------------------------------
(* Types *)

\* What AddToStats(C) does to the types.
LEMMA AddToStatsType ==
    ASSUME TypeOK, NEW C \in SUBSET Calls, AddToStats(C)
    PROVE  /\ recorded' \subseteq Calls /\ forgotten \subseteq recorded'
           /\ stats' \in [Outcomes \cup {"total"} -> Nat]
<1>1. recorded' \subseteq Calls /\ forgotten \subseteq recorded'
  BY DEF AddToStats, TypeOK
<1>2. ASSUME NEW o \in Outcomes \cup {"total"}
      PROVE  stats[o] + (IF o = "total" THEN Cardinality(C) ELSE With(o, C)) \in Nat
  <2>1. stats[o] \in Nat
    BY DEF TypeOK
  <2>2. Cardinality(C) \in Nat /\ With(o, C) \in Nat
    BY WithType
  <2> QED
    BY <2>1, <2>2
<1>3. stats' = [o \in Outcomes \cup {"total"} |->
                  stats[o] + IF o = "total" THEN Cardinality(C) ELSE With(o, C)]
  <2>1. DOMAIN stats = Outcomes \cup {"total"}
    BY DEF TypeOK
  <2> QED
    BY <2>1 DEF AddToStats
<1> QED
  BY <1>1, <1>2, <1>3

LEMMA AnswerType ==
    ASSUME NEW e \in Events, TypeOK
    PROVE  CallsFor(e) \subseteq Calls /\ Cardinality(CallsFor(e)) \in Nat
<1>1. CallsFor(e) \subseteq Calls
  BY DEF CallsFor, Matching, Calls, TypeOK
<1> QED
  BY <1>1, CallsFinite, FS_Subset, FS_CardinalityType

\* Where a subscription can be at each place of the calls about it.  A task's
\* target is one whose subscribe has returned.
PlaceInv ==
    /\ \A t \in Tasks : tpc[t] \in {"found", "unlisted", "setting"} =>
                            target[t] \in Subs /\ sub[target[t]] = "live"
    /\ \A t \in Tasks : tpc[t] \in {"idle", "setting"} => covers[t] = {}
    /\ \A t \in Tasks : \A s \in covers[t] \cup todo[t] : sub[s] = "live"
    /\ \A s \in index \cup gone : sub[s] = "live"
    /\ \A s \in list : sub[s] # "none"
    /\ \A s \in Subs : sub[s] = "listed" => s \in list

LEMMA InitType == Init => TypeOK
BY BusAssumption DEF BusAssumption, Init, TypeOK, NoStats, Outcomes

\* The step of each operation, one conjunct of Next after the other.
LEMMA NextType == TypeOK /\ PlaceInv /\ [Next]_vars => TypeOK'
<1> SUFFICES ASSUME TypeOK, PlaceInv, [Next]_vars PROVE TypeOK'
  OBVIOUS
<1> USE BusAssumption DEF BusAssumption
<1>1. ASSUME NEW s \in Subs, Enlist(s) PROVE TypeOK'
  BY <1>1 DEF Enlist, TypeOK, taskVars, eventVars, callVars, statVars
<1>2. ASSUME NEW s \in Subs, Index(s) PROVE TypeOK'
  BY <1>2 DEF Index, TypeOK, taskVars, eventVars, callVars, statVars
<1>3. ASSUME NEW t \in Tasks, NEW s \in Subs, Unsubscribe(t, s) PROVE TypeOK'
  BY <1>3 DEF Unsubscribe, Begin, TypeOK, subVars, eventVars, callVars, statVars
<1>4. ASSUME NEW t \in Tasks, NEW s \in Subs, UnsubscribeNotFound(t, s) PROVE TypeOK'
  BY <1>4 DEF UnsubscribeNotFound, TypeOK, subVars, eventVars, callVars, statVars
<1>5. ASSUME NEW t \in Tasks, NEW m \in Subscribers, UnsubscribeAll(t, m) PROVE TypeOK'
  BY <1>5 DEF UnsubscribeAll, LiveSubs, Begin, TypeOK, subVars, eventVars, callVars, statVars
<1>6. ASSUME NEW t \in Tasks, NEW s \in Subs, NEW b \in BOOLEAN, SetEnabled(t, s, b)
      PROVE  TypeOK'
  BY <1>6 DEF SetEnabled, Begin, TypeOK, subVars, eventVars, callVars, statVars
<1>7. ASSUME NEW t \in Tasks, CancelStep(t) PROVE TypeOK'
  <2>1. CASE Unlist(t)
    BY <2>1 DEF Unlist, TypeOK, eventVars, callVars, statVars
  <2>2. CASE Unindex(t)
    BY <2>2 DEF Unindex, TypeOK, PlaceInv, eventVars, callVars, statVars
  <2>3. CASE ClearNext(t)
    BY <2>3 DEF ClearNext, TypeOK, subVars, eventVars, callVars, statVars
  <2>4. CASE AllCleared(t)
    BY <2>4 DEF AllCleared, TypeOK, subVars, eventVars, callVars, statVars
  <2>5. CASE ApplyEnabled(t)
    BY <2>5 DEF ApplyEnabled, TypeOK, eventVars, callVars, statVars
  <2> QED
    BY <1>7, <2>1, <2>2, <2>3, <2>4, <2>5 DEF CancelStep
<1>8. ASSUME NEW e \in Events, NEW how \in {"spawn", "sequence", "sync"}, Publish(e, how)
      PROVE  TypeOK'
  BY <1>8, AnswerType DEF Publish, TypeOK, Outcomes, subVars, taskVars, statVars
<1>9. ASSUME NEW c \in Calls, CallStep(c) \/ BeginCallback(c) PROVE TypeOK'
  <2>1. CASE Invoke(c)
    BY <2>1 DEF Invoke, TypeOK, subVars, taskVars, eventVars, statVars
  <2>2. CASE Expire(c)
    BY <2>2 DEF Expire, TypeOK, Outcomes, subVars, taskVars, eventVars, statVars
  <2>3. CASE Record(c)
    <3>1. AddToStats({c})
      BY <2>3 DEF Record
    <3>2. recorded' \subseteq Calls /\ forgotten \subseteq recorded'
          /\ stats' \in [Outcomes \cup {"total"} -> Nat]
      BY <3>1, AddToStatsType
    <3> QED
      BY <2>3, <3>2 DEF Record, TypeOK, subVars, taskVars, eventVars, callVars
  <2>4. CASE BeginCallback(c)
    BY <2>4 DEF BeginCallback, TypeOK, subVars, taskVars, eventVars, statVars
  <2> QED
    BY <1>9, <2>1, <2>2, <2>3, <2>4 DEF CallStep
<1>10. ASSUME NEW c \in Calls, NEW how \in {"success", "failed"}, EndCallback(c, how)
       PROVE  TypeOK'
  BY <1>10 DEF EndCallback, TypeOK, Outcomes, subVars, taskVars, eventVars, statVars
<1>11. ASSUME NEW e \in Events, ReturnStep(e) PROVE TypeOK'
  <2>1. CASE ReturnSequence(e)
    BY <2>1 DEF ReturnSequence, TypeOK, subVars, taskVars, callVars, statVars
  <2>2. CASE ReturnSync(e)
    <3>1. AddToStats(MadeFor(e)) /\ MadeFor(e) \in SUBSET Calls
      BY <2>2 DEF ReturnSync, MadeFor
    <3>2. recorded' \subseteq Calls /\ forgotten \subseteq recorded'
          /\ stats' \in [Outcomes \cup {"total"} -> Nat]
      BY <3>1, AddToStatsType
    <3> QED
      BY <2>2, <3>2 DEF ReturnSync, TypeOK, subVars, taskVars, callVars
  <2> QED
    BY <1>11, <2>1, <2>2 DEF ReturnStep
<1>12. CASE ResetStats
  BY <1>12 DEF ResetStats, TypeOK, NoStats, subVars, taskVars, eventVars, callVars
<1>13. CASE UNCHANGED vars
  BY <1>13 DEF TypeOK, vars, subVars, taskVars, eventVars, callVars, statVars
<1> QED
  BY <1>1, <1>2, <1>3, <1>4, <1>5, <1>6, <1>7, <1>8, <1>9, <1>10, <1>11, <1>12, <1>13 DEF Next

-------------------------------------------------------------------------------
(* Where subscriptions can be *)

\* The steps that concern subscriptions; no other changes what PlaceInv and
\* CancelInv speak of.
Subscribing ==
    \/ \E s \in Subs : Enlist(s) \/ Index(s)
    \/ \E t \in Tasks, s \in Subs : Unsubscribe(t, s) \/ UnsubscribeNotFound(t, s)
    \/ \E t \in Tasks, m \in Subscribers : UnsubscribeAll(t, m)
    \/ \E t \in Tasks, s \in Subs, b \in BOOLEAN : SetEnabled(t, s, b)
    \/ \E t \in Tasks : CancelStep(t)

LEMMA OtherSteps == [Next]_vars => Subscribing \/ UNCHANGED <<subVars, taskVars>>
BY DEF Next, Subscribing, vars, Publish, CallStep, Invoke, Expire, Record, BeginCallback,
       EndCallback, ReturnStep, ReturnSequence, ReturnSync, ResetStats

LEMMA InitPlace == Init => PlaceInv
BY DEF Init, PlaceInv

LEMMA NextPlace == TypeOK /\ PlaceInv /\ [Next]_vars => PlaceInv'
<1> SUFFICES ASSUME TypeOK, PlaceInv, [Next]_vars PROVE PlaceInv'
  OBVIOUS
<1> USE BusAssumption DEF BusAssumption
<1>1. ASSUME NEW s \in Subs, Enlist(s) PROVE PlaceInv'
  BY <1>1 DEF Enlist, TypeOK, PlaceInv, taskVars
<1>2. ASSUME NEW s \in Subs, Index(s) PROVE PlaceInv'
  BY <1>2 DEF Index, TypeOK, PlaceInv, taskVars
<1>3. ASSUME NEW t \in Tasks, NEW s \in Subs, Unsubscribe(t, s) PROVE PlaceInv'
  BY <1>3 DEF Unsubscribe, Begin, TypeOK, PlaceInv, subVars
<1>4. ASSUME NEW t \in Tasks, NEW s \in Subs, UnsubscribeNotFound(t, s) PROVE PlaceInv'
  BY <1>4 DEF UnsubscribeNotFound, TypeOK, PlaceInv, subVars
<1>5. ASSUME NEW t \in Tasks, NEW m \in Subscribers, UnsubscribeAll(t, m) PROVE PlaceInv'
  BY <1>5 DEF UnsubscribeAll, LiveSubs, Begin, TypeOK, PlaceInv, subVars
<1>6. ASSUME NEW t \in Tasks, NEW s \in Subs, NEW b \in BOOLEAN, SetEnabled(t, s, b)
      PROVE  PlaceInv'
  BY <1>6 DEF SetEnabled, Begin, TypeOK, PlaceInv, subVars
<1>7. ASSUME NEW t \in Tasks, CancelStep(t) PROVE PlaceInv'
  <2>1. CASE Unlist(t)
    BY <2>1 DEF Unlist, TypeOK, PlaceInv
  <2>2. CASE Unindex(t)
    BY <2>2 DEF Unindex, TypeOK, PlaceInv
  <2>3. CASE ClearNext(t)
    BY <2>3 DEF ClearNext, TypeOK, PlaceInv, subVars
  <2>4. CASE AllCleared(t)
    BY <2>4 DEF AllCleared, TypeOK, PlaceInv, subVars
  <2>5. CASE ApplyEnabled(t)
    BY <2>5 DEF ApplyEnabled, TypeOK, PlaceInv
  <2> QED
    BY <1>7, <2>1, <2>2, <2>3, <2>4, <2>5 DEF CancelStep
<1>8. CASE UNCHANGED <<subVars, taskVars>>
  BY <1>8 DEF PlaceInv, subVars, taskVars
<1> QED
  BY OtherSteps, <1>1, <1>2, <1>3, <1>4, <1>5, <1>6, <1>7, <1>8 DEF Subscribing

\* Every variable keeps its type; what is enabled is in the list.
THEOREM TypeCorrect == Spec => []TypeOK
<1>1. Spec => [](TypeOK /\ PlaceInv)
  BY InitType, NextType, InitPlace, NextPlace, PTL DEF Spec
<1> QED
  BY <1>1, PTL

-------------------------------------------------------------------------------
(* Cancelling *)

\* What unsubscribe_all still has to cancel is on its way: among the ids to
\* remove, or the one it is at.
CancelInv ==
    /\ ListIndexAgree /\ GoneForGood
    /\ \A t \in Tasks : tpc[t] = "unlisted" => target[t] \notin list
    /\ \A t \in Tasks : \A s \in covers[t] \cap list :
          s \in todo[t] \/ (tpc[t] = "found" /\ target[t] = s)

\* A subscription that the index does not have is not in the list either.
LEMMA NotIndexedNotListed ==
    ASSUME TypeOK, CancelInv, NEW s \in Subs, sub[s] = "live", s \notin index
    PROVE  s \notin list
BY DEF CancelInv, ListIndexAgree

LEMMA InitCancel == Init => CancelInv
BY DEF Init, CancelInv, ListIndexAgree, GoneForGood

LEMMA NextCancel == TypeOK /\ PlaceInv /\ CancelInv /\ [Next]_vars => CancelInv'
<1> SUFFICES ASSUME TypeOK, PlaceInv, CancelInv, [Next]_vars PROVE CancelInv'
  OBVIOUS
<1> USE BusAssumption DEF BusAssumption
<1>1. ASSUME NEW s \in Subs, Enlist(s) PROVE CancelInv'
  BY <1>1 DEF Enlist, TypeOK, PlaceInv, CancelInv, ListIndexAgree, GoneForGood, taskVars
<1>2. ASSUME NEW s \in Subs, Index(s) PROVE CancelInv'
  BY <1>2 DEF Index, TypeOK, PlaceInv, CancelInv, ListIndexAgree, GoneForGood, taskVars
<1>3. ASSUME NEW t \in Tasks, NEW s \in Subs, Unsubscribe(t, s) PROVE CancelInv'
  BY <1>3 DEF Unsubscribe, Begin, TypeOK, PlaceInv, CancelInv, ListIndexAgree, GoneForGood,
              subVars
<1>4. ASSUME NEW t \in Tasks, NEW s \in Subs, UnsubscribeNotFound(t, s) PROVE CancelInv'
  <2>1. s \notin list
    BY <1>4, NotIndexedNotListed DEF UnsubscribeNotFound
  <2> QED
    BY <1>4, <2>1 DEF UnsubscribeNotFound, CancelInv, ListIndexAgree, GoneForGood, subVars
<1>5. ASSUME NEW t \in Tasks, NEW m \in Subscribers, UnsubscribeAll(t, m) PROVE CancelInv'
  <2>1. \A s \in LiveSubs(m) \cap list : s \in index /\ SubscriberOf[s] = m
    BY NotIndexedNotListed DEF LiveSubs
  <2>2. todo'[t] = {s \in index : SubscriberOf[s] = m} /\ covers'[t] = LiveSubs(m)
    BY <1>5 DEF UnsubscribeAll, Begin, TypeOK
  <2>3. \A u \in Tasks \ {t} : todo'[u] = todo[u] /\ covers'[u] = covers[u] /\ tpc'[u] = tpc[u]
    BY <1>5 DEF UnsubscribeAll, Begin, TypeOK
  <2>4. tpc[t] = "idle" /\ tpc'[t] = "clearing"
    BY <1>5 DEF UnsubscribeAll, Begin, TypeOK
  <2>5. UNCHANGED <<list, index, sub, target, gone>>
    BY <1>5 DEF UnsubscribeAll, subVars
  <2> QED
    BY <2>1, <2>2, <2>3, <2>4, <2>5 DEF CancelInv, ListIndexAgree, GoneForGood
<1>6. ASSUME NEW t \in Tasks, NEW s \in Subs, NEW b \in BOOLEAN, SetEnabled(t, s, b)
      PROVE  CancelInv'
  BY <1>6 DEF SetEnabled, Begin, TypeOK, PlaceInv, CancelInv, ListIndexAgree, GoneForGood,
              subVars
<1>7. ASSUME NEW t \in Tasks, CancelStep(t) PROVE CancelInv'
  <2>1. CASE Unlist(t)
    BY <2>1 DEF Unlist, TypeOK, PlaceInv, CancelInv, ListIndexAgree, GoneForGood
  <2>2. CASE Unindex(t)
    BY <2>2 DEF Unindex, TypeOK, PlaceInv, CancelInv, ListIndexAgree, GoneForGood
  <2>3. CASE ClearNext(t)
    <3>1. PICK s \in todo[t] :
             /\ todo' = [todo EXCEPT ![t] = @ \ {s}]
             /\ \/ s \in index /\ target' = [target EXCEPT ![t] = s]
                               /\ tpc' = [tpc EXCEPT ![t] = "found"]
                \/ s \notin index /\ UNCHANGED <<target, tpc>>
      BY <2>3 DEF ClearNext
    <3>2. s \in Subs /\ (s \notin index => s \notin list)
      BY NotIndexedNotListed DEF TypeOK, PlaceInv
    <3>3. UNCHANGED <<list, index, sub, covers, gone>> /\ tpc[t] = "clearing"
      BY <2>3 DEF ClearNext, subVars
    <3> QED
      BY <3>1, <3>2, <3>3 DEF TypeOK, CancelInv, ListIndexAgree, GoneForGood
  <2>4. CASE AllCleared(t)
    BY <2>4 DEF AllCleared, TypeOK, PlaceInv, CancelInv, ListIndexAgree, GoneForGood, subVars
  <2>5. CASE ApplyEnabled(t)
    BY <2>5 DEF ApplyEnabled, TypeOK, PlaceInv, CancelInv, ListIndexAgree, GoneForGood
  <2> QED
    BY <1>7, <2>1, <2>2, <2>3, <2>4, <2>5 DEF CancelStep
<1>8. CASE UNCHANGED <<subVars, taskVars>>
  BY <1>8 DEF CancelInv, ListIndexAgree, GoneForGood, subVars, taskVars
<1> QED
  BY OtherSteps, <1>1, <1>2, <1>3, <1>4, <1>5, <1>6, <1>7, <1>8 DEF Subscribing

\* The invariant of the subscriptions, from which both properties follow.
LEMMA Places == Spec => [](TypeOK /\ PlaceInv /\ CancelInv)
<1>1. Init => TypeOK /\ PlaceInv /\ CancelInv
  BY InitType, InitPlace, InitCancel
<1>2. TypeOK /\ PlaceInv /\ CancelInv /\ [Next]_vars => (TypeOK /\ PlaceInv /\ CancelInv)'
  BY NextType, NextPlace, NextCancel
<1> QED
  BY <1>1, <1>2, PTL DEF Spec

\* List and index differ in a subscription only while some call is between
\* them.
THEOREM ListAndIndexAgree == Spec => []ListIndexAgree
<1>1. CancelInv => ListIndexAgree
  BY DEF CancelInv
<1> QED
  BY <1>1, Places, PTL

\* A subscription that a call has cancelled is found by no later event.
THEOREM CancelledIsGone == Spec => []GoneForGood
<1>1. CancelInv => GoneForGood
  BY DEF CancelInv
<1> QED
  BY <1>1, Places, PTL

-------------------------------------------------------------------------------
(* Statistics *)

\* A recorded call has ended, and one of publish_sync is recorded on return.
StatInv ==
    /\ StatsAccounted
    /\ \A c \in recorded : outcome[c] \in Outcomes
    /\ \A c \in Calls : event[EventOf(c)] = "new" => outcome[c] = "none"
    /\ \A c \in recorded : mode[EventOf(c)] = "sync" => event[EventOf(c)] = "returned"

\* Sets of calls that share none are counted apart.
LEMMA CountUnion ==
    ASSUME NEW C \in SUBSET Calls, NEW D \in SUBSET Calls, C \cap D = {}, NEW o
    PROVE  /\ Cardinality(C \cup D) = Cardinality(C) + Cardinality(D)
           /\ With(o, C \cup D) = With(o, C) + With(o, D)
<1> DEFINE CO == {c \in C : outcome[c] = o}
           DO == {c \in D : outcome[c] = o}
<1>1. /\ IsFiniteSet(C) /\ Cardinality(C) \in Nat /\ IsFiniteSet(CO)
      /\ Cardinality(CO) \in Nat
  BY WithType DEF With
<1>2. /\ IsFiniteSet(D) /\ Cardinality(D) \in Nat /\ IsFiniteSet(DO)
      /\ Cardinality(DO) \in Nat
  BY WithType DEF With
<1>3. Cardinality(C \cup D) = Cardinality(C) + Cardinality(D) - Cardinality(C \cap D)
  BY <1>1, <1>2, FS_Union
<1>4. Cardinality(CO \cup DO) = Cardinality(CO) + Cardinality(DO) - Cardinality(CO \cap DO)
  BY <1>1, <1>2, FS_Union
<1>5. CO \cap DO = {} /\ CO \cup DO = {c \in C \cup D : outcome[c] = o}
  OBVIOUS
<1>6. With(o, C \cup D) = Cardinality(CO \cup DO)
  BY <1>5 DEF With
<1>7. With(o, C) = Cardinality(CO) /\ With(o, D) = Cardinality(DO)
  BY DEF With
<1> HIDE DEF CO, DO
<1> QED
  BY <1>1, <1>2, <1>3, <1>4, <1>5, <1>6, <1>7, FS_EmptySet

\* Results of calls not yet recorded may change.
LEMMA StatsKept ==
    ASSUME StatsAccounted, UNCHANGED statVars, \A c \in recorded : outcome'[c] = outcome[c]
    PROVE  StatsAccounted'
<1> DEFINE counted == recorded \ forgotten
<1>1. \A o : {c \in counted : outcome'[c] = o} = {c \in counted : outcome[c] = o}
  OBVIOUS
<1>2. UNCHANGED <<recorded, stats, forgotten>>
  BY DEF statVars
<1>3. \A o \in Outcomes : stats[o] = Cardinality({c \in counted : outcome'[c] = o})
  BY <1>1 DEF StatsAccounted, With
<1>4. stats["total"] = Cardinality(counted)
  BY DEF StatsAccounted
<1> QED
  BY <1>2, <1>3, <1>4 DEF StatsAccounted, With

LEMMA StatsAdded ==
    ASSUME TypeOK, StatsAccounted, NEW C \in SUBSET Calls, C \cap recorded = {},
           AddToStats(C), UNCHANGED <<outcome, forgotten>>
    PROVE  StatsAccounted'
<1> DEFINE counted == recorded \ forgotten
<1>1. counted \in SUBSET Calls /\ counted \cap C = {} /\ recorded' \ forgotten = counted \cup C
  BY DEF TypeOK, AddToStats
<1>2. Cardinality(counted \cup C) = Cardinality(counted) + Cardinality(C)
  BY <1>1, CountUnion
<1>3. \A o : With(o, counted \cup C) = With(o, counted) + With(o, C)
  BY <1>1, CountUnion
<1>4. stats["total"] = Cardinality(counted) /\ \A o \in Outcomes : stats[o] = With(o, counted)
  BY DEF StatsAccounted
<1>5. /\ stats'["total"] = stats["total"] + Cardinality(C)
      /\ \A o \in Outcomes : stats'[o] = stats[o] + With(o, C)
  BY DEF AddToStats, TypeOK, Outcomes
<1>6. /\ stats'["total"] = Cardinality(counted \cup C)
      /\ \A o \in Outcomes : stats'[o] = With(o, counted \cup C)
  BY <1>2, <1>3, <1>4, <1>5
<1> QED
  BY <1>1, <1>6 DEF StatsAccounted, With

LEMMA InitStats == Init => StatInv
<1> SUFFICES ASSUME Init PROVE StatInv
  OBVIOUS
<1>1. recorded \ forgotten = {} /\ \A o : {c \in {} : outcome[c] = o} = {}
  BY DEF Init
<1>2. StatsAccounted
  BY <1>1, FS_EmptySet DEF Init, StatsAccounted, NoStats, With, Outcomes
<1> QED
  BY <1>2 DEF Init, StatInv

LEMMA NextStats == TypeOK /\ StatInv /\ [Next]_vars => StatInv'
<1> SUFFICES ASSUME TypeOK, StatInv, [Next]_vars PROVE StatInv'
  OBVIOUS
<1> USE BusAssumption DEF BusAssumption
\* Steps that leave the statistics alone and change no recorded result.
<1> DEFINE Quiet == /\ UNCHANGED statVars
                    /\ \A c \in recorded : outcome'[c] = outcome[c]
<1>1. ASSUME NEW e \in Events, NEW how \in {"spawn", "sequence", "sync"}, Publish(e, how)
      PROVE  StatInv'
  <2>1. event[e] = "new" /\ \A c \in Calls : EventOf(c) = e => c \notin recorded
    BY <1>1 DEF Publish, StatInv, Outcomes
  <2>2. \A c \in Calls : c \in CallsFor(e) => EventOf(c) = e
    BY DEF CallsFor, EventOf
  <2>3. \A c \in Calls : EventOf(c) # e => outcome'[c] = outcome[c]
    BY <1>1, <2>2 DEF Publish
  <2>4. Quiet
    BY <1>1, <2>1, <2>3 DEF Publish, TypeOK
  <2>5. StatsAccounted'
    BY <2>4, StatsKept DEF StatInv
  <2>6. /\ event'[e] # "new"
        /\ \A f \in Events \ {e} : event'[f] = event[f] /\ mode'[f] = mode[f]
    BY <1>1 DEF Publish, TypeOK
  <2>7. \A c \in Calls : EventOf(c) \in Events
    BY DEF Calls, EventOf
  <2>8. recorded' = recorded /\ recorded \subseteq Calls
    BY <2>4 DEF statVars, TypeOK
  <2> QED
    BY <2>1, <2>3, <2>4, <2>5, <2>6, <2>7, <2>8 DEF StatInv
<1>2. ASSUME NEW c \in Calls,
             \/ Invoke(c) \/ Expire(c) \/ BeginCallback(c)
             \/ \E how \in {"success", "failed"} : EndCallback(c, how)
      PROVE  StatInv'
  <2>1. /\ \A d \in Calls \ {c} : outcome'[d] = outcome[d]
        /\ outcome'[c] # outcome[c] => outcome[c] \in {"planned", "waiting"}
    BY <1>2 DEF Invoke, Expire, BeginCallback, EndCallback, TypeOK
  <2>2. UNCHANGED <<statVars, eventVars>>
    BY <1>2 DEF Invoke, Expire, BeginCallback, EndCallback
  <2>3. Quiet
    BY <2>1, <2>2 DEF StatInv, Outcomes, TypeOK
  <2>4. StatsAccounted'
    BY <2>3, StatsKept DEF StatInv
  <2> QED
    BY <2>1, <2>2, <2>3, <2>4 DEF StatInv, statVars, eventVars
<1>3. ASSUME NEW c \in Calls, Record(c) PROVE StatInv'
  <2>1. {c} \cap recorded = {} /\ AddToStats({c}) /\ UNCHANGED <<outcome, forgotten, eventVars>>
    BY <1>3 DEF Record, callVars
  <2>2. StatsAccounted'
    BY <2>1, StatsAdded DEF StatInv
  <2>3. recorded' = recorded \cup {c} /\ outcome[c] \in Outcomes /\ mode[EventOf(c)] # "sync"
    BY <1>3 DEF Record, AddToStats
  <2> QED
    BY <2>1, <2>2, <2>3 DEF StatInv, eventVars
<1>4. ASSUME NEW e \in Events, ReturnSync(e) PROVE StatInv'
  <2>1. event[e] = "awaiting" /\ mode[e] = "sync" /\ event' = [event EXCEPT ![e] = "returned"]
    BY <1>4 DEF ReturnSync
  <2>2. MadeFor(e) \cap recorded = {} /\ MadeFor(e) \in SUBSET Calls
    BY <2>1 DEF MadeFor, StatInv
  <2>3. AddToStats(MadeFor(e)) /\ UNCHANGED <<outcome, forgotten, mode>>
    BY <1>4 DEF ReturnSync, callVars
  <2>4. StatsAccounted'
    BY <2>2, <2>3, StatsAdded DEF StatInv
  <2>5. recorded' = recorded \cup MadeFor(e) /\ \A c \in MadeFor(e) : outcome[c] \in Outcomes
    BY <1>4 DEF ReturnSync, AddToStats
  <2>6. event'[e] = "returned" /\ \A f \in Events \ {e} : event'[f] = event[f]
    BY <2>1 DEF TypeOK
  <2>7. /\ \A c \in MadeFor(e) : EventOf(c) = e
        /\ \A c \in Calls : EventOf(c) \in Events
        /\ recorded \subseteq Calls
    BY DEF MadeFor, Calls, EventOf, TypeOK
  <2> QED
    BY <2>1, <2>2, <2>3, <2>4, <2>5, <2>6, <2>7 DEF StatInv
<1>5. ASSUME NEW e \in Events, ReturnSequence(e) PROVE StatInv'
  <2>1. /\ event' = [event EXCEPT ![e] = "returned"]
        /\ UNCHANGED <<mode, outcome, statVars>>
    BY <1>5 DEF ReturnSequence, callVars
  <2>2. StatsAccounted'
    BY <2>1, StatsKept DEF StatInv
  <2>3. event'[e] = "returned" /\ \A f \in Events \ {e} : event'[f] = event[f]
    BY <2>1 DEF TypeOK
  <2>4. (\A c \in Calls : EventOf(c) \in Events) /\ recorded \subseteq Calls
    BY DEF Calls, EventOf, TypeOK
  <2> QED
    BY <2>1, <2>2, <2>3, <2>4 DEF StatInv, statVars
<1>6. CASE ResetStats
  <2>1. recorded' \ forgotten' = {} /\ stats' = NoStats /\ UNCHANGED <<recorded, eventVars, outcome>>
    BY <1>6 DEF ResetStats, callVars
  <2>2. StatsAccounted'
    <3>1. \A o : {c \in {} : outcome'[c] = o} = {}
      OBVIOUS
    <3> QED
      BY <2>1, <3>1, FS_EmptySet DEF StatsAccounted, NoStats, With, Outcomes
  <2> QED
    BY <2>1, <2>2 DEF StatInv, eventVars
<1>7. CASE UNCHANGED <<eventVars, callVars, statVars>>
  <2>1. StatsAccounted'
    BY <1>7, StatsKept DEF StatInv, callVars
  <2> QED
    BY <1>7, <2>1 DEF StatInv, eventVars, callVars, statVars
<1>8. Subscribing => UNCHANGED <<eventVars, callVars, statVars>>
  BY DEF Subscribing, Enlist, Index, Unsubscribe, UnsubscribeNotFound, UnsubscribeAll,
         SetEnabled, CancelStep, Unlist, Unindex, ClearNext, AllCleared, ApplyEnabled
<1> QED
  BY <1>1, <1>2, <1>3, <1>4, <1>5, <1>6, <1>7, <1>8
     DEF Next, Subscribing, CallStep, ReturnStep, vars

\* The statistics count each call that ended since the last reset once, by
\* the result its publisher saw.
THEOREM StatsAlwaysAccounted == Spec => []StatsAccounted
<1>1. Init => TypeOK /\ PlaceInv /\ StatInv
  BY InitType, InitPlace, InitStats
<1>2. TypeOK /\ PlaceInv /\ StatInv /\ [Next]_vars => (TypeOK /\ PlaceInv /\ StatInv)'
  BY NextType, NextPlace, NextStats
<1>3. StatInv => StatsAccounted
  BY DEF StatInv
<1> QED
  BY <1>1, <1>2, <1>3, PTL DEF Spec

===============================================================================
