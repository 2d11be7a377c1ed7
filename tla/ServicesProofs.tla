---------------------------- MODULE ServicesProofs ----------------------------
(***************************************************************************)
(* What TLAPS proves of the services that the core offers, each by itself  *)
(* and for every value of the constants: the resource monitor's alerts,    *)
(* the logger's one log, the layers of the settings, the configuration     *)
(* store with its watchers, its validators and its reloads, and what the   *)
(* request validator, the metadata parser and the patterns make of names,  *)
(* and the figures of the statistics.                                      *)
(*                                                                         *)
(* The store needs what the operators on configurations do to the paths    *)
(* that a change does not reach, and that all of them keep a tree a tree.  *)
(* Folds and recursive functions are reached by an induction that is a     *)
(* fact about sets of numbers: each has a least one.                       *)
(***************************************************************************)
EXTENDS ConfigStore, CoreSettings, LatencyStats, ResourceMonitor, Logger, Validation, Integers,
        FiniteSetTheorems, SequenceTheorems, NaturalsInduction, WellFoundedInduction, TLAPS

(* Induction and folds.                                                    *)

\* A set of numbers has a least one: what a proof by induction rests on here, as a fact
\* about sets.
LEMMA LeastNat ==
    ASSUME NEW T \in SUBSET Nat, T # {}
    PROVE  \E x \in T : \A y \in T : x <= y
<1>1. ASSUME NEW R, IsWellFoundedOn(R, Nat), \A x, y \in Nat : <<y, x>> \in R <=> y < x
      PROVE  \E x \in T : \A y \in T : x <= y
  <2>1. PICK x \in T : \A y \in T : ~ (<<y, x>> \in R)
    BY <1>1, WFMin
  <2>2. ASSUME NEW y \in T PROVE x <= y
    <3>1. ~ (<<y, x>> \in R) /\ x \in Nat /\ y \in Nat
      BY <2>1
    <3>2. ~ (y < x)
      BY <1>1, <3>1, Zenon
    <3> QED
      BY <3>1, <3>2
  <2> QED
    BY <2>1, <2>2
<1>2. IsWellFoundedOn(OpToRel(<, Nat), Nat)
  BY NatLessThanWellFounded
<1>3. \A x, y \in Nat : <<y, x>> \in OpToRel(<, Nat) <=> y < x
  BY DEF OpToRel
<1> QED
  BY <1>1, <1>2, <1>3, Zenon

\* Induction: a set with 0 and the successors of its members has every number up to n.
LEMMA UpTo ==
    ASSUME NEW n \in Nat, NEW S, 0 \in S, \A k \in 0..(n - 1) : k \in S => k + 1 \in S
    PROVE  \A k \in 0..n : k \in S
<1> SUFFICES ASSUME NEW k \in 0..n, k \notin S PROVE FALSE
  OBVIOUS
<1> DEFINE T == {j \in 0..n : j \notin S}
<1>1. T \in SUBSET Nat /\ T # {}
  OBVIOUS
<1>2. PICK x \in T : \A y \in T : x <= y
  BY <1>1, LeastNat
<1>3. x # 0 /\ x - 1 \in 0..(n - 1) /\ (x - 1) + 1 = x
  BY <1>2
<1>4. x - 1 \in S
  BY <1>2, <1>3
<1> QED
  BY <1>2, <1>3, <1>4

LEMMA Greatest ==
    ASSUME NEW n \in Nat, NEW S \in SUBSET (0..n), S # {}
    PROVE  Max(S) \in S /\ \A y \in S : y <= Max(S)
<1> DEFINE T == {m \in Nat : \A y \in S : y <= m}
<1>1. T \in SUBSET Nat /\ n \in T
  OBVIOUS
<1>2. PICK m \in T : \A y \in T : m <= y
  BY <1>1, LeastNat
<1>3. m \in S
  <2> SUFFICES ASSUME m \notin S PROVE FALSE
    OBVIOUS
  <2>1. \A y \in S : y \in Nat /\ y < m
    BY <1>2
  <2>2. m \in Nat /\ m > 0
    <3>1. PICK y \in S : TRUE
      OBVIOUS
    <3> QED
      BY <1>2, <2>1, <3>1
  <2>3. m - 1 \in Nat /\ ~ (m <= m - 1) /\ \A y \in S : y <= m - 1
    BY <2>1, <2>2
  <2> QED
    BY <1>2, <2>3
<1>4. \A y \in S : m >= y
  BY <1>2
<1>5. Max(S) \in S /\ \A y \in S : Max(S) >= y
  BY <1>3, <1>4 DEF Max
<1> QED
  BY <1>5

\* A fold over 1..n, from left to right, as SequencesExt defines it: by sets of indices, of
\* which it takes the greatest off.  There is one, for a step that is given as a function.
FoldOf(it, n, b, g) ==
    it = [s \in SUBSET (1..n) |-> IF s = {} THEN b ELSE g[<<it[s \ {Max(s)}], Max(s)>>]]

LEMMA FoldExists ==
    ASSUME NEW n \in Nat, NEW V, NEW b \in V, NEW g \in [V \X (1..n) -> V]
    PROVE  \E it \in [SUBSET (1..n) -> V] : FoldOf(it, n, b, g)
<1> DEFINE S == {k \in 0..n : \E it \in [SUBSET (1..k) -> V] : FoldOf(it, k, b, g)}
<1>1. 0 \in S
  <2> DEFINE h == [s \in SUBSET (1..0) |-> b]
  <2>1. \A s \in SUBSET (1..0) : s = {}
    OBVIOUS
  <2>2. h \in [SUBSET (1..0) -> V] /\ FoldOf(h, 0, b, g)
    BY <2>1 DEF FoldOf
  <2> QED
    BY <2>2
<1>2. ASSUME NEW k \in 0..(n - 1), k \in S PROVE k + 1 \in S
  <2>1. PICK it \in [SUBSET (1..k) -> V] : FoldOf(it, k, b, g)
    BY <1>2
  <2> DEFINE h == [s \in SUBSET (1..(k + 1)) |->
                     IF s \in SUBSET (1..k) THEN it[s] ELSE g[<<it[s \ {k + 1}], k + 1>>]]
  <2>2. \A s \in SUBSET (1..(k + 1)) : s \ {k + 1} \in SUBSET (1..k)
    OBVIOUS
  <2>3. h \in [SUBSET (1..(k + 1)) -> V]
    BY <2>1, <2>2
  <2>4. ASSUME NEW s \in SUBSET (1..(k + 1))
        PROVE  h[s] = IF s = {} THEN b ELSE g[<<h[s \ {Max(s)}], Max(s)>>]
    <3>1. CASE s \in SUBSET (1..k)
      <4>1. h[s] = it[s] /\ h[s \ {Max(s)}] = it[s \ {Max(s)}]
        BY <3>1
      <4>2. it[s] = IF s = {} THEN b ELSE g[<<it[s \ {Max(s)}], Max(s)>>]
        BY <2>1, <3>1 DEF FoldOf
      <4> QED
        BY <4>1, <4>2
    <3>2. CASE s \notin SUBSET (1..k)
      <4>1. k + 1 \in s /\ s # {} /\ s \in SUBSET (0..(k + 1))
        BY <3>2
      <4>2. Max(s) = k + 1
        <5>1. k + 1 \in Nat
          OBVIOUS
        <5>2. Max(s) \in s /\ \A y \in s : y <= Max(s)
          BY <4>1, <5>1, Greatest
        <5>3. Max(s) \in 1..(k + 1) /\ k + 1 <= Max(s)
          BY <4>1, <5>2
        <5> QED
          BY <5>1, <5>3
      <4>3. h[s \ {k + 1}] = it[s \ {k + 1}]
        BY <2>2
      <4> QED
        BY <3>2, <4>1, <4>2, <4>3
    <3> QED
      BY <3>1, <3>2
  <2>5. FoldOf(h, k + 1, b, g)
    BY <2>3, <2>4 DEF FoldOf
  <2>6. \E it2 \in [SUBSET (1..(k + 1)) -> V] : FoldOf(it2, k + 1, b, g)
    <3> HIDE DEF h
    <3> QED
      BY <2>3, <2>5
  <2>7. k + 1 \in 0..n
    OBVIOUS
  <2> QED
    BY <2>6, <2>7
<1>3. n \in S
  <2> HIDE DEF S
  <2> QED
    BY <1>1, <1>2, UpTo
<1> QED
  BY <1>3

\* The sets of indices that it comes by.
LEMMA Intervals ==
    ASSUME NEW n \in Nat, NEW k \in 1..n
    PROVE  /\ 1..k \in SUBSET (1..n) /\ 1..k # {}
           /\ Max(1..k) = k /\ (1..k) \ {k} = 1..(k - 1)
<1>1. 1..k \in SUBSET (1..n) /\ 1..k # {} /\ 1..k \in SUBSET (0..k) /\ k \in 1..k /\ k \in Nat
  OBVIOUS
<1>2. Max(1..k) \in 1..k /\ \A y \in 1..k : y <= Max(1..k)
  BY <1>1, Greatest
<1>3. k <= Max(1..k)
  BY <1>1, <1>2
<1>4. Max(1..k) = k
  BY <1>1, <1>2, <1>3
<1>5. (1..k) \ {k} = 1..(k - 1)
  OBVIOUS
<1> QED
  BY <1>1, <1>4, <1>5

--------------------------------------------------------------------------------
(* The resource monitor.                                                   *)

Checks == [at : {"idle", "memory", "threads", "store"}, config : Limits,
           memory : Nat, threads : Nat]

\* The checks under way that have raised an alert, for the memory and for the threads.
MemoryAlerts ==
    {t \in Checkers : /\ check[t].at \in {"threads", "store"}
                      /\ check[t].config.alerts /\ MemoryWarns(check[t])}
ThreadAlerts ==
    {t \in Checkers : /\ check[t].at = "store"
                      /\ check[t].config.alerts /\ ThreadsWarn(check[t])}

MonitorTypes ==
    /\ monitorConfig \in Limits
    /\ alertCount \in Nat /\ owed \in Nat /\ resetMet \in BOOLEAN
    /\ check \in [Checkers -> Checks]
    /\ inForce \in [Checkers -> SUBSET Limits]

\* A check judges by a configuration that was in force since it began.
CopyInForce == \A t \in Checkers : check[t].at # "idle" => check[t].config \in inForce[t]

\* An alert is counted when it is raised, and owed when its check is done.
AlertsInFlight ==
    ~resetMet => alertCount = owed + Cardinality(MemoryAlerts) + Cardinality(ThreadAlerts)

MonitorInv == MonitorTypes /\ CopyInForce /\ JudgedByOneConfig /\ AlertsInFlight

In(t, S) == IF t \in S THEN 1 ELSE 0

\* Two sets of callers that differ in one at most.
LEMMA CountChange ==
    ASSUME NEW S \in SUBSET Checkers, NEW T \in SUBSET Checkers, NEW t, S \ {t} = T \ {t}
    PROVE  /\ Cardinality(S) \in Nat /\ Cardinality(T) \in Nat
           /\ Cardinality(T) + In(t, S) = Cardinality(S) + In(t, T)
<1>1. IsFiniteSet(S) /\ IsFiniteSet(T)
  BY ResourceMonitorAssumption, FS_Subset DEF ResourceMonitorAssumption
<1>2. Cardinality(S) \in Nat /\ Cardinality(T) \in Nat
  BY <1>1, FS_CardinalityType
<1>3. /\ Cardinality(S \ {t}) = IF t \in S THEN Cardinality(S) - 1 ELSE Cardinality(S)
      /\ Cardinality(T \ {t}) = IF t \in T THEN Cardinality(T) - 1 ELSE Cardinality(T)
  BY <1>1, FS_RemoveElement
<1> QED
  BY <1>2, <1>3 DEF In

\* A check that goes on, or is done, takes its alerts along.
LEMMA AlertsStep ==
    ASSUME MonitorTypes, NEW t \in Checkers, NEW c \in Checks,
           check' = [check EXCEPT ![t] = c]
    PROVE  /\ Cardinality(MemoryAlerts) \in Nat /\ Cardinality(MemoryAlerts') \in Nat
           /\ Cardinality(ThreadAlerts) \in Nat /\ Cardinality(ThreadAlerts') \in Nat
           /\ Cardinality(MemoryAlerts') + In(t, MemoryAlerts)
                = Cardinality(MemoryAlerts) + In(t, MemoryAlerts')
           /\ Cardinality(ThreadAlerts') + In(t, ThreadAlerts)
                = Cardinality(ThreadAlerts) + In(t, ThreadAlerts')
<1>1. MemoryAlerts \in SUBSET Checkers /\ ThreadAlerts \in SUBSET Checkers
  BY DEF MemoryAlerts, ThreadAlerts
<1>2. MemoryAlerts' \in SUBSET Checkers /\ ThreadAlerts' \in SUBSET Checkers
  BY DEF MemoryAlerts, ThreadAlerts
<1>3. \A u \in Checkers \ {t} : check'[u] = check[u]
  BY DEF MonitorTypes
<1>4. MemoryAlerts \ {t} = MemoryAlerts' \ {t}
  BY <1>3 DEF MemoryAlerts, MemoryWarns
<1>5. ThreadAlerts \ {t} = ThreadAlerts' \ {t}
  BY <1>3 DEF ThreadAlerts, ThreadsWarn
<1> QED
  BY <1>1, <1>2, <1>4, <1>5, CountChange

\* What a step adds to the count, or moves from the checks to the owed, keeps the balance.
LEMMA AlertsBalance ==
    ASSUME MonitorTypes, AlertsInFlight, NEW t \in Checkers, NEW c \in Checks,
           check' = [check EXCEPT ![t] = c],
           alertCount' \in Nat, owed' \in Nat, resetMet' = resetMet,
           alertCount' + owed + In(t, MemoryAlerts) + In(t, ThreadAlerts)
             = alertCount + owed' + In(t, MemoryAlerts') + In(t, ThreadAlerts')
    PROVE  AlertsInFlight'
<1>2. \A S : In(t, S) \in Nat
  BY DEF In
<1>3. alertCount \in Nat /\ owed \in Nat
  BY DEF MonitorTypes
<1> SUFFICES ASSUME ~resetMet'
             PROVE  alertCount' = owed' + Cardinality(MemoryAlerts') + Cardinality(ThreadAlerts')
  BY DEF AlertsInFlight
<1>4. alertCount = owed + Cardinality(MemoryAlerts) + Cardinality(ThreadAlerts)
  BY DEF AlertsInFlight
<1>5. /\ Cardinality(MemoryAlerts) \in Nat /\ Cardinality(MemoryAlerts') \in Nat
      /\ Cardinality(ThreadAlerts) \in Nat /\ Cardinality(ThreadAlerts') \in Nat
      /\ Cardinality(MemoryAlerts') + In(t, MemoryAlerts)
           = Cardinality(MemoryAlerts) + In(t, MemoryAlerts')
      /\ Cardinality(ThreadAlerts') + In(t, ThreadAlerts)
           = Cardinality(ThreadAlerts) + In(t, ThreadAlerts')
  BY AlertsStep
<1>6. /\ In(t, MemoryAlerts) \in Nat /\ In(t, MemoryAlerts') \in Nat
      /\ In(t, ThreadAlerts) \in Nat /\ In(t, ThreadAlerts') \in Nat
  BY <1>2
<1>7. /\ alertCount' \in Nat /\ owed' \in Nat
      /\ alertCount' + owed + In(t, MemoryAlerts) + In(t, ThreadAlerts)
           = alertCount + owed' + In(t, MemoryAlerts') + In(t, ThreadAlerts')
  OBVIOUS
<1> QED
  BY ONLY <1>3, <1>4, <1>5, <1>6, <1>7

LEMMA InitMonitorInv == MonitorInit => MonitorInv
<1> SUFFICES ASSUME MonitorInit PROVE MonitorInv
  OBVIOUS
<1>1. NoCheck \in Checks /\ NoCheck.at = "idle"
  BY ResourceMonitorAssumption DEF ResourceMonitorAssumption, NoCheck, Checks
<1>2. MonitorTypes
  BY <1>1, ResourceMonitorAssumption DEF ResourceMonitorAssumption, MonitorInit, MonitorTypes
<1>3. MemoryAlerts = {} /\ ThreadAlerts = {}
  BY <1>1 DEF MonitorInit, MemoryAlerts, ThreadAlerts
<1>4. AlertsInFlight
  BY <1>3, FS_EmptySet DEF MonitorInit, AlertsInFlight
<1> QED
  BY <1>1, <1>2, <1>4 DEF MonitorInit, MonitorInv, CopyInForce, JudgedByOneConfig

\* A step of one check.
LEMMA CheckKeepsMonitorInv ==
    ASSUME MonitorInv, NEW t \in Checkers,
           CheckBegins(t) \/ AlertMemory(t) \/ AlertThreads(t) \/ StoreStatus(t)
    PROVE  MonitorInv'
<1>0. MonitorTypes /\ CopyInForce /\ JudgedByOneConfig /\ AlertsInFlight
  BY DEF MonitorInv
<1>1. /\ check[t] \in Checks /\ inForce[t] \in SUBSET Limits /\ monitorConfig \in Limits
      /\ alertCount \in Nat /\ owed \in Nat
  BY <1>0 DEF MonitorTypes
<1>2. NoCheck \in Checks /\ NoCheck.at = "idle"
  BY ResourceMonitorAssumption DEF ResourceMonitorAssumption, NoCheck, Checks
<1>4. ASSUME NEW c \in Checks, check' = [check EXCEPT ![t] = c]
      PROVE  check' \in [Checkers -> Checks] /\ check'[t] = c
             /\ \A u \in Checkers \ {t} : check'[u] = check[u]
  BY <1>0, <1>4 DEF MonitorTypes
<1>5. CASE CheckBegins(t)
  <2> DEFINE c == [check[t] EXCEPT !.at = "memory", !.config = monitorConfig]
  <2>1. c \in Checks /\ c.at = "memory" /\ c.config = monitorConfig
    BY <1>1 DEF Checks
  <2>2. check' = [check EXCEPT ![t] = c] /\ check[t].at = "idle"
    BY <1>5 DEF CheckBegins
  <2> HIDE DEF c
  <2>3. MonitorTypes'
    BY <1>0, <1>1, <1>4, <1>5, <2>1, <2>2 DEF CheckBegins, MonitorTypes
  <2>4. CopyInForce'
    BY <1>0, <1>4, <1>5, <2>1, <2>2 DEF CheckBegins, CopyInForce, MonitorTypes
  <2>5. t \notin MemoryAlerts /\ t \notin ThreadAlerts
        /\ t \notin MemoryAlerts' /\ t \notin ThreadAlerts'
    BY <1>4, <2>1, <2>2 DEF MemoryAlerts, ThreadAlerts
  <2>6. AlertsInFlight'
    BY <1>0, <1>1, <1>5, <2>1, <2>2, <2>5, AlertsBalance DEF CheckBegins, In
  <2> QED
    BY <1>0, <1>5, <2>3, <2>4, <2>6 DEF CheckBegins, MonitorInv, JudgedByOneConfig
<1>6. CASE AlertMemory(t)
  <2> PICK use \in Usages :
        /\ check' = [check EXCEPT ![t].at = "threads", ![t].memory = use]
        /\ alertCount' = alertCount + Alerts(check'[t], MemoryWarns(check'[t]))
    BY <1>6 DEF AlertMemory
  <2> DEFINE c == [check[t] EXCEPT !.at = "threads", !.memory = use]
  <2>1. c \in Checks /\ c.at = "threads" /\ c.config = check[t].config
    BY <1>1, ResourceMonitorAssumption DEF ResourceMonitorAssumption, Checks
  <2>2. check' = [check EXCEPT ![t] = c] /\ check[t].at = "memory"
    BY <1>6 DEF AlertMemory
  <2> HIDE DEF c
  <2>3. alertCount' = alertCount + Alerts(c, MemoryWarns(c)) /\ alertCount' \in Nat
    <3>1. check'[t] = c
      BY <1>4, <2>1, <2>2
    <3>2. alertCount' = alertCount + Alerts(c, MemoryWarns(c))
      BY <3>1
    <3>3. Alerts(c, MemoryWarns(c)) \in {0, 1}
      BY DEF Alerts
    <3> QED
      BY <1>1, <3>2, <3>3
  <2>4. MonitorTypes'
    BY <1>0, <1>4, <1>6, <2>1, <2>2, <2>3 DEF AlertMemory, MonitorTypes
  <2>5. CopyInForce'
    BY <1>0, <1>4, <1>6, <2>1, <2>2 DEF AlertMemory, CopyInForce, MonitorTypes
  <2>6. /\ t \notin MemoryAlerts /\ t \notin ThreadAlerts /\ t \notin ThreadAlerts'
        /\ t \in MemoryAlerts' <=> (c.config.alerts /\ MemoryWarns(c))
    BY <1>4, <2>1, <2>2 DEF MemoryAlerts, ThreadAlerts, MemoryWarns
  <2>7. AlertsInFlight'
    <3>1. alertCount' + owed + In(t, MemoryAlerts) + In(t, ThreadAlerts)
            = alertCount + owed + In(t, MemoryAlerts') + In(t, ThreadAlerts')
      BY <1>1, <2>1, <2>3, <2>6 DEF In, Alerts
    <3>2. owed' = owed /\ resetMet' = resetMet
      BY <1>6 DEF AlertMemory
    <3> QED
      BY <1>0, <1>1, <2>1, <2>2, <2>3, <3>1, <3>2, AlertsBalance
  <2> QED
    BY <1>0, <1>6, <2>4, <2>5, <2>7 DEF AlertMemory, MonitorInv, JudgedByOneConfig
<1>7. CASE AlertThreads(t)
  <2> PICK use \in Usages :
        /\ check' = [check EXCEPT ![t].at = "store", ![t].threads = use]
        /\ alertCount' = alertCount + Alerts(check'[t], ThreadsWarn(check'[t]))
    BY <1>7 DEF AlertThreads
  <2> DEFINE c == [check[t] EXCEPT !.at = "store", !.threads = use]
  <2>1. /\ c \in Checks /\ c.at = "store" /\ c.config = check[t].config
        /\ c.memory = check[t].memory
    BY <1>1, ResourceMonitorAssumption DEF ResourceMonitorAssumption, Checks
  <2>2. check' = [check EXCEPT ![t] = c] /\ check[t].at = "threads"
    BY <1>7 DEF AlertThreads
  <2> HIDE DEF c
  <2>3. alertCount' = alertCount + Alerts(c, ThreadsWarn(c)) /\ alertCount' \in Nat
    <3>1. check'[t] = c
      BY <1>4, <2>1, <2>2
    <3>2. alertCount' = alertCount + Alerts(c, ThreadsWarn(c))
      BY <3>1
    <3>3. Alerts(c, ThreadsWarn(c)) \in {0, 1}
      BY DEF Alerts
    <3> QED
      BY <1>1, <3>2, <3>3
  <2>4. MonitorTypes'
    BY <1>0, <1>4, <1>7, <2>1, <2>2, <2>3 DEF AlertThreads, MonitorTypes
  <2>5. CopyInForce'
    BY <1>0, <1>4, <1>7, <2>1, <2>2 DEF AlertThreads, CopyInForce, MonitorTypes
  <2>6. /\ t \in MemoryAlerts' <=> t \in MemoryAlerts
        /\ t \notin ThreadAlerts
        /\ t \in ThreadAlerts' <=> (c.config.alerts /\ ThreadsWarn(c))
    BY <1>4, <2>1, <2>2 DEF MemoryAlerts, ThreadAlerts, MemoryWarns, ThreadsWarn
  <2>7. AlertsInFlight'
    <3>1. alertCount' + owed + In(t, MemoryAlerts) + In(t, ThreadAlerts)
            = alertCount + owed + In(t, MemoryAlerts') + In(t, ThreadAlerts')
      BY <1>1, <2>1, <2>3, <2>6 DEF In, Alerts
    <3>2. owed' = owed /\ resetMet' = resetMet
      BY <1>7 DEF AlertThreads
    <3> QED
      BY <1>0, <1>1, <2>1, <2>2, <2>3, <3>1, <3>2, AlertsBalance
  <2> QED
    BY <1>0, <1>7, <2>4, <2>5, <2>7 DEF AlertThreads, MonitorInv, JudgedByOneConfig
<1>8. CASE StoreStatus(t)
  <2>1. check' = [check EXCEPT ![t] = NoCheck] /\ check[t].at = "store"
    BY <1>8 DEF StoreStatus
  <2>2. owed' = owed + In(t, MemoryAlerts) + In(t, ThreadAlerts) /\ owed' \in Nat
    BY <1>1, <1>8, <2>1 DEF Alerts, StoreStatus, MemoryAlerts, ThreadAlerts, In
  <2>3. MonitorTypes'
    BY <1>0, <1>2, <1>4, <1>8, <2>1, <2>2 DEF StoreStatus, MonitorTypes
  <2>4. CopyInForce'
    BY <1>0, <1>2, <1>4, <1>8, <2>1 DEF StoreStatus, CopyInForce, MonitorTypes
  <2>5. t \notin MemoryAlerts' /\ t \notin ThreadAlerts'
    BY <1>2, <1>4, <2>1 DEF MemoryAlerts, ThreadAlerts
  <2>6. AlertsInFlight'
    <3>1. alertCount' = alertCount /\ resetMet' = resetMet
      BY <1>8 DEF StoreStatus
    <3>2. alertCount + owed + In(t, MemoryAlerts) + In(t, ThreadAlerts)
            = alertCount + owed' + In(t, MemoryAlerts') + In(t, ThreadAlerts')
      BY <1>1, <2>2, <2>5 DEF In
    <3> QED
      BY <1>0, <1>1, <1>2, <2>1, <2>2, <3>1, <3>2, AlertsBalance
  <2>7. JudgedByOneConfig'
    <3>1. check[t].config \in inForce[t]
      BY <1>0, <2>1 DEF CopyInForce
    <3>2. lastStatus' = {StatusOf(t)}
      BY <1>8 DEF StoreStatus
    <3>3. \E limits \in StatusOf(t).between :
             /\ StatusOf(t).memoryWarning <=> StatusOf(t).memory > limits.memory
             /\ StatusOf(t).threadWarning <=> StatusOf(t).threads > limits.threads
      BY <3>1 DEF StatusOf, MemoryWarns, ThreadsWarn
    <3> QED
      BY <3>2, <3>3 DEF JudgedByOneConfig
  <2> QED
    BY <2>3, <2>4, <2>6, <2>7 DEF MonitorInv
<1> QED
  BY <1>5, <1>6, <1>7, <1>8

\* Whoever changes the configuration touches no check; a reset that meets none leaves none
\* with an alert.
LEMMA NextMonitorInv == MonitorInv /\ [MonitorNext]_monitorVars => MonitorInv'
<1> SUFFICES ASSUME MonitorInv, [MonitorNext]_monitorVars PROVE MonitorInv'
  OBVIOUS
<1>0. MonitorTypes /\ CopyInForce /\ JudgedByOneConfig /\ AlertsInFlight
  BY DEF MonitorInv
<1>1. CASE Configure
  <2> PICK new \in MonitorConfigs :
          /\ \/ monitorConfig' = new
             \/ monitorConfig' = [monitorConfig EXCEPT !.memory = new.memory]
             \/ monitorConfig' = [monitorConfig EXCEPT !.threads = new.threads]
             \/ monitorConfig' = [monitorConfig EXCEPT !.alerts = new.alerts]
          /\ inForce' = [t \in Checkers |->
                IF check[t].at = "idle" THEN {} ELSE inForce[t] \cup {monitorConfig'}]
    BY <1>1 DEF Configure
  <2>1. monitorConfig' \in Limits
    <3>1. new \in Limits /\ monitorConfig \in Limits
      BY <1>0, ResourceMonitorAssumption DEF ResourceMonitorAssumption, MonitorTypes
    <3> QED
      BY <3>1 DEF Limits
  <2>2. MonitorTypes'
    BY <1>0, <1>1, <2>1 DEF Configure, MonitorTypes
  <2>3. CopyInForce'
    BY <1>0, <1>1 DEF Configure, CopyInForce
  <2>4. AlertsInFlight'
    BY <1>0, <1>1 DEF Configure, AlertsInFlight, MemoryAlerts, ThreadAlerts
  <2> QED
    BY <1>0, <1>1, <2>2, <2>3, <2>4 DEF Configure, MonitorInv, JudgedByOneConfig
<1>2. CASE ResetAlertCount
  <2>1. MonitorTypes' /\ CopyInForce' /\ JudgedByOneConfig'
    BY <1>0, <1>2 DEF ResetAlertCount, MonitorTypes, CopyInForce, JudgedByOneConfig
  <2>2. ASSUME ~resetMet' PROVE MemoryAlerts' = {} /\ ThreadAlerts' = {}
    BY <1>2, <2>2 DEF ResetAlertCount, MemoryAlerts, ThreadAlerts
  <2>3. AlertsInFlight'
    BY <1>2, <2>2, FS_EmptySet DEF ResetAlertCount, AlertsInFlight
  <2> QED
    BY <2>1, <2>3 DEF MonitorInv
<1>3. CASE UNCHANGED monitorVars
  BY <1>0, <1>3 DEF monitorVars, MonitorInv, MonitorTypes, CopyInForce, JudgedByOneConfig,
     AlertsInFlight, MemoryAlerts, ThreadAlerts
<1> QED
  BY <1>1, <1>2, <1>3, CheckKeepsMonitorInv DEF MonitorNext

\* ResourceMonitor of metrics.rs, for any number of callers and changes: what a check warns of
\* is judged by one configuration that was in force while it went on, and the count of alerts
\* is that of the warnings since the last reset, once no check is under way.
THEOREM MonitorAlertsHold == MonitorSpec => []AlertsHold
<1>1. MonitorInv => AlertsHold
  <2> SUFFICES ASSUME MonitorInv PROVE AlertsHold
    OBVIOUS
  <2>1. ASSUME \A t \in Checkers : check[t].at = "idle"
        PROVE  MemoryAlerts = {} /\ ThreadAlerts = {}
    BY <2>1 DEF MemoryAlerts, ThreadAlerts
  <2>2. Cardinality({}) = 0
    BY FS_EmptySet
  <2>3. AlertsInFlight /\ owed \in Nat /\ JudgedByOneConfig
    BY DEF MonitorInv, MonitorTypes
  <2>4. AlertsAccounted
    BY <2>1, <2>2, <2>3 DEF AlertsInFlight, AlertsAccounted
  <2> QED
    BY <2>3, <2>4 DEF AlertsHold
<1> QED
  BY InitMonitorInv, NextMonitorInv, <1>1, PTL DEF MonitorSpec

--------------------------------------------------------------------------------
(* The logger.                                                             *)

Filters == [Scopes -> Levels \cup {Unset}]

\* The filter of a configuration is made directive by directive.
LEMMA FilterSteps ==
    ASSUME NEW setup \in LoggerConfigs
    PROVE  LET n == Len(setup.directives)
           IN  /\ setup.directives \in Seq(Directives \cup {Unreadable}) /\ n \in Nat
               /\ \E f \in [0..n -> Filters] :
                     /\ f[0] = BaseFilter(setup)
                     /\ \A k \in 1..n : f[k] = Applies(f[k - 1], setup.directives[k], setup.level)
                     /\ FilterOf(setup) = f[n]
<1> DEFINE q == setup.directives
           n == Len(q)
           b == BaseFilter(setup)
           g == [x \in Filters \X (1..n) |-> Applies(x[1], q[x[2]], setup.level)]
           Body(it) == [s \in SUBSET (DOMAIN q) |->
                           IF s = {} THEN b
                           ELSE Applies(it[s \ {Max(s)}], q[Max(s)], setup.level)]
           F == CHOOSE it : it = Body(it)
<1>1. q \in Seq(Directives \cup {Unreadable}) /\ n \in Nat /\ DOMAIN q = 1..n
      /\ setup.level \in Levels
  BY LoggerAssumption DEF LoggerAssumption, LoggerConfigs
<1>2. FilterOf(setup) = F[DOMAIN q]
  BY DEF FilterOf, FoldLeft, MapThenFoldSet
<1>3. b \in Filters
  BY <1>1, LoggerAssumption DEF LoggerAssumption, BaseFilter, Filters
<1>4. ASSUME NEW v \in Filters, NEW i \in 1..n
      PROVE  Applies(v, q[i], setup.level) \in Filters
  <2>1. q[i] \in Directives \cup {Unreadable}
    BY <1>1
  <2> QED
    BY <1>1, <1>4, <2>1 DEF Applies, Filters, Directives, Scopes
<1>5. g \in [Filters \X (1..n) -> Filters]
  BY <1>4
<1>6. PICK it \in [SUBSET (1..n) -> Filters] : FoldOf(it, n, b, g)
  <2> HIDE DEF b, g, n
  <2> QED
    BY <1>1, <1>3, <1>5, FoldExists
<1>7. \A s \in SUBSET (1..n) : s # {} =>
          /\ Max(s) \in 1..n
          /\ s \ {Max(s)} \in SUBSET (1..n)
  <2> SUFFICES ASSUME NEW s \in SUBSET (1..n), s # {}
               PROVE  Max(s) \in s
    OBVIOUS
  <2>1. s \in SUBSET (0..n)
    BY <1>1
  <2> HIDE DEF n
  <2> QED
    BY <1>1, <2>1, Greatest
<1>8. it = Body(it)
  <2>1. \A s \in SUBSET (1..n) : it[s] = IF s = {} THEN b ELSE g[<<it[s \ {Max(s)}], Max(s)>>]
    BY <1>6 DEF FoldOf
  <2>2. ASSUME NEW s \in SUBSET (1..n), s # {}
        PROVE  g[<<it[s \ {Max(s)}], Max(s)>>] = Applies(it[s \ {Max(s)}], q[Max(s)], setup.level)
    BY <1>6, <1>7, <2>2
  <2> HIDE DEF g
  <2> QED
    BY <1>1, <1>6, <2>1, <2>2
<1>9. F = Body(F)
  BY <1>8
<1>10. F[{}] = b
  BY <1>1, <1>9
<1>11. ASSUME NEW k \in 1..n PROVE F[1..k] = Applies(F[1..(k - 1)], q[k], setup.level)
  <2>1. 1..k \in SUBSET (1..n) /\ 1..k # {} /\ Max(1..k) = k /\ (1..k) \ {k} = 1..(k - 1)
    BY <1>1, Intervals
  <2>2. F[1..k] = Body(F)[1..k]
    BY <1>9
  <2>3. Body(F)[1..k] = Applies(F[(1..k) \ {Max(1..k)}], q[Max(1..k)], setup.level)
    BY <1>1, <2>1
  <2> QED
    BY <2>1, <2>2, <2>3
<1>12. \A k \in 0..n : F[1..k] \in Filters
  <2> DEFINE S == {k \in 0..n : F[1..k] \in Filters}
  <2> HIDE DEF n, F, b
  <2>1. 0 \in S
    BY <1>1, <1>3, <1>10
  <2>2. ASSUME NEW k \in 0..(n - 1), k \in S PROVE k + 1 \in S
    <3>1. k + 1 \in 1..n /\ (k + 1) - 1 = k /\ k + 1 \in 0..n
      BY <1>1
    <3>2. F[1..(k + 1)] = Applies(F[1..k], q[k + 1], setup.level)
      BY <1>11, <3>1
    <3> QED
      BY <1>4, <2>2, <3>1, <3>2
  <2> HIDE DEF S
  <2>3. \A k \in 0..n : k \in S
    BY <1>1, <2>1, <2>2, UpTo
  <2> QED
    BY <2>3 DEF S
<1> DEFINE f == [k \in 0..n |-> F[1..k]]
<1> HIDE DEF n, F, b
<1>13. f \in [0..n -> Filters] /\ f[0] = b
  BY <1>1, <1>10, <1>12
<1>14. \A k \in 1..n : f[k] = Applies(f[k - 1], q[k], setup.level)
  BY <1>1, <1>11
<1>15. FilterOf(setup) = f[n]
  BY <1>1, <1>2
<1> HIDE DEF f
<1> QED
  BY <1>1, <1>13, <1>14, <1>15 DEF n, b

\* What nobody's directive speaks of is left as RUST_LOG has it.
LEMMA EnvironmentStays ==
    ASSUME NEW setup \in LoggerConfigs, Environment # Unset, NEW target \in Targets,
           \A d \in ToSet(setup.directives) : ~ (d = Unreadable \/ d[1] \in {target, Everything})
    PROVE  LevelOf(FilterOf(setup), target) = Environment
<1> DEFINE n == Len(setup.directives)
<1>1. setup.directives \in Seq(Directives \cup {Unreadable}) /\ n \in Nat
  BY FilterSteps
<1>2. PICK f \in [0..n -> Filters] :
        /\ f[0] = BaseFilter(setup)
        /\ \A k \in 1..n : f[k] = Applies(f[k - 1], setup.directives[k], setup.level)
        /\ FilterOf(setup) = f[n]
  BY FilterSteps
<1>3. ASSUME NEW k \in 1..n
      PROVE  /\ f[k][target] = f[k - 1][target] /\ f[k][Everything] = f[k - 1][Everything]
  <2>1. setup.directives[k] \in ToSet(setup.directives)
    BY <1>1 DEF ToSet
  <2>2. setup.directives[k] # Unreadable /\ setup.directives[k][1] \notin {target, Everything}
    BY <2>1
  <2>3. k - 1 \in 0..n /\ f[k - 1] \in Filters /\ target \in Scopes /\ Everything \in Scopes
    BY <1>1, <1>2 DEF Scopes
  <2>4. f[k] = [f[k - 1] EXCEPT ![setup.directives[k][1]] = setup.directives[k][2]]
    BY <1>2, <2>2 DEF Applies
  <2> QED
    BY <2>2, <2>3, <2>4 DEF Filters
<1> DEFINE S == {k \in 0..n : /\ f[k][target] = f[0][target]
                              /\ f[k][Everything] = f[0][Everything]}
<1>4. \A k \in 0..n : k \in S
  <2> HIDE DEF n
  <2>1. 0 \in S
    BY <1>1
  <2>2. ASSUME NEW k \in 0..(n - 1), k \in S PROVE k + 1 \in S
    <3>1. k + 1 \in 1..n /\ (k + 1) - 1 = k /\ k + 1 \in 0..n
      BY <1>1
    <3> QED
      BY <1>3, <2>2, <3>1
  <2> HIDE DEF S
  <2> QED
    BY <1>1, <2>1, <2>2, UpTo
<1>5. n \in S
  BY <1>1, <1>4
<1>6. f[n][target] = BaseFilter(setup)[target] /\ f[n][Everything] = BaseFilter(setup)[Everything]
  BY <1>2, <1>5
<1>7. /\ BaseFilter(setup)[Everything] = Environment
      /\ BaseFilter(setup)[target] \in {Unset, Environment}
  BY DEF BaseFilter, Scopes
<1> QED
  BY <1>2, <1>6, <1>7 DEF LevelOf

LEMMA FilterTyped == \A setup \in LoggerConfigs : FilterOf(setup) \in Filters
<1> SUFFICES ASSUME NEW setup \in LoggerConfigs PROVE FilterOf(setup) \in Filters
  OBVIOUS
<1>1. Len(setup.directives) \in 0..Len(setup.directives)
  BY FilterSteps
<1> QED
  BY <1>1, FilterSteps

\* How far each call has come, and whose log it is.
LoggerStages ==
    /\ \A t \in Initializers :
          /\ initializing[t].at \in {"build", "install", "mark"} =>
                initializing[t].config \in LoggerConfigs
          /\ initializing[t].at # "idle" => answered[t] = "nothing"
          /\ initializing[t].at = "install" => held[t] = LayersOf(initializing[t].config)
          /\ initializing[t].at = "mark" =>
                subscriber = Installed(t) /\ held[t] = LayersOf(initializing[t].config)
          /\ subscriber.by = t => initializing[t].at = "mark" \/ (marked /\ initializing[t] = Rests)

LoggerInv == LoggerTypeOK /\ LoggerStages /\ MarkMeansInstalled /\ OkHoldsTheLog /\ NoWriterLeft

Subscribers == [by : Initializers \cup {"nobody", "foreign"},
                layers : SUBSET {"console", "file"}, filter : Filters]
Initializings == [at : {"idle", "build", "install", "mark", "panicked"},
                  config : LoggerConfigs \cup {Unset}]

LEMMA SubscribersTyped ==
    /\ Nobody \in Subscribers /\ Nobody.by = "nobody"
    /\ Foreign \in Subscribers /\ Foreign.by = "foreign"
    /\ \A t \in Initializers : initializing[t].config \in LoggerConfigs =>
          /\ Installed(t) \in Subscribers
          /\ Installed(t).by = t /\ Installed(t).layers = LayersOf(initializing[t].config)
          /\ Installed(t).filter = FilterOf(initializing[t].config)
<1>1. Nobody \in Subscribers /\ Nobody.by = "nobody"
  BY DEF Nobody, Subscribers, Filters
<1>2. Foreign \in Subscribers /\ Foreign.by = "foreign"
  BY <1>1 DEF Foreign, Subscribers
<1>3. ASSUME NEW t \in Initializers, initializing[t].config \in LoggerConfigs
      PROVE  /\ Installed(t) \in Subscribers
             /\ Installed(t).by = t /\ Installed(t).layers = LayersOf(initializing[t].config)
             /\ Installed(t).filter = FilterOf(initializing[t].config)
  <2>1. LayersOf(initializing[t].config) \in SUBSET {"console", "file"}
    BY DEF LayersOf
  <2>2. FilterOf(initializing[t].config) \in Filters
    BY <1>3, FilterTyped
  <2> QED
    BY <2>1, <2>2 DEF Installed, Subscribers
<1> QED
  BY <1>1, <1>2, <1>3

LEMMA InitLoggerInv == LoggerInit => LoggerInv
<1> SUFFICES ASSUME LoggerInit PROVE LoggerInv
  OBVIOUS
<1>1. \A t \in Initializers : /\ initializing[t] = Rests /\ held[t] = {}
                              /\ answered[t] = "nothing"
  BY DEF LoggerInit
<1>2. subscriber \in Subscribers /\ subscriber.by \notin Initializers
  BY SubscribersTyped, LoggerAssumption DEF LoggerAssumption, LoggerInit
<1>3. Rests.at = "idle"
  BY DEF Rests
<1>4. initializing \in [Initializers -> Initializings]
  BY DEF LoggerInit, Rests, Initializings
<1>5. LoggerTypeOK
  BY <1>1, <1>2, <1>3, <1>4 DEF LoggerInit, LoggerTypeOK, Subscribers, Initializings, Filters
<1>6. LoggerStages
  BY <1>1, <1>2, <1>3 DEF LoggerStages
<1> QED
  BY <1>1, <1>5, <1>6 DEF LoggerInit, LoggerInv, MarkMeansInstalled, OkHoldsTheLog, NoWriterLeft

\* A step of one call changes that call's part.
LEMMA LoggerStep ==
    ASSUME LoggerInv, NEW t \in Initializers, NEW i \in Initializings, NEW h, NEW a,
           initializing' = [initializing EXCEPT ![t] = i],
           held' = [held EXCEPT ![t] = h], answered' = [answered EXCEPT ![t] = a],
           subscriber' \in Subscribers, marked' \in BOOLEAN,
           h \in SUBSET {"console", "file"}, a \in {"nothing", "ok", "err"},
           i.at = "idle" <=> i = Rests,
           subscriber' = subscriber \/ (subscriber.by \notin Initializers /\ subscriber'.by = t),
           marked => marked',
           marked' => subscriber'.by \in Initializers,
           i.at \in {"build", "install", "mark"} => i.config \in LoggerConfigs,
           i.at # "idle" => a = "nothing",
           i.at = "install" => h = LayersOf(i.config),
           i.at = "mark" => /\ h = LayersOf(i.config) /\ subscriber'.by = t
                            /\ subscriber'.layers = h /\ subscriber'.filter = FilterOf(i.config),
           subscriber'.by = t => i.at = "mark" \/ (marked' /\ i = Rests),
           a = "ok" => subscriber'.by = t /\ h = subscriber'.layers,
           h # {} => i.at = "install" \/ (subscriber'.by = t /\ h = subscriber'.layers)
    PROVE  LoggerInv'
<1>0. LoggerTypeOK /\ LoggerStages /\ MarkMeansInstalled /\ OkHoldsTheLog /\ NoWriterLeft
  BY DEF LoggerInv
<1>1. /\ initializing \in [Initializers -> Initializings]
      /\ held \in [Initializers -> SUBSET {"console", "file"}]
      /\ answered \in [Initializers -> {"nothing", "ok", "err"}]
      /\ subscriber \in Subscribers
  BY <1>0 DEF LoggerTypeOK, Initializings, Subscribers, Filters
<1>2. /\ initializing' \in [Initializers -> Initializings]
      /\ held' \in [Initializers -> SUBSET {"console", "file"}]
      /\ answered' \in [Initializers -> {"nothing", "ok", "err"}]
      /\ initializing'[t] = i /\ held'[t] = h /\ answered'[t] = a
  BY <1>1
<1>3. \A u \in Initializers \ {t} :
        /\ initializing'[u] = initializing[u] /\ held'[u] = held[u] /\ answered'[u] = answered[u]
  BY <1>1
<1>4. LoggerTypeOK'
  <2>1. \A u \in Initializers : initializing'[u].at = "idle" <=> initializing'[u] = Rests
    BY <1>0, <1>2, <1>3 DEF LoggerTypeOK
  <2> QED
    BY <1>2, <2>1 DEF LoggerTypeOK, Initializings, Subscribers, Filters
<1>5. ASSUME NEW u \in Initializers \ {t}, subscriber'.by = u \/ subscriber.by = u
      PROVE  subscriber' = subscriber /\ subscriber.by = u
  BY <1>5
<1>6. LoggerStages'
  <2> SUFFICES ASSUME NEW u \in Initializers
               PROVE  /\ initializing'[u].at \in {"build", "install", "mark"} =>
                            initializing'[u].config \in LoggerConfigs
                      /\ initializing'[u].at # "idle" => answered'[u] = "nothing"
                      /\ initializing'[u].at = "install" => held'[u] = LayersOf(initializing'[u].config)
                      /\ initializing'[u].at = "mark" =>
                            subscriber' = Installed(u)' /\ held'[u] = LayersOf(initializing'[u].config)
                      /\ subscriber'.by = u =>
                            initializing'[u].at = "mark" \/ (marked' /\ initializing'[u] = Rests)
    BY DEF LoggerStages
  <2>1. CASE u = t
    <3>1. ASSUME i.at = "mark" PROVE subscriber' = Installed(t)'
      <4>1. PICK x, y, z : subscriber' = [by |-> x, layers |-> y, filter |-> z]
        BY DEF Subscribers
      <4>2. x = t /\ y = LayersOf(i.config) /\ z = FilterOf(i.config)
        BY <3>1, <4>1
      <4> QED
        BY <1>2, <4>1, <4>2 DEF Installed
    <3> QED
      BY <1>2, <2>1, <3>1
  <2>2. CASE u # t
    <3>1. Installed(u)' = Installed(u)
      BY <1>3, <2>2 DEF Installed
    <3>2. initializing[u].at = "mark" => subscriber.by = u
      BY <1>0, SubscribersTyped DEF LoggerStages
    <3> QED
      BY <1>0, <1>3, <1>5, <2>2, <3>1, <3>2 DEF LoggerStages
  <2> QED
    BY <2>1, <2>2
<1>7. MarkMeansInstalled'
  BY DEF MarkMeansInstalled
<1>8. OkHoldsTheLog'
  BY <1>0, <1>2, <1>3, <1>5 DEF OkHoldsTheLog
<1>9. NoWriterLeft'
  BY <1>0, <1>2, <1>3, <1>5 DEF NoWriterLeft
<1> QED
  BY <1>4, <1>6, <1>7, <1>8, <1>9 DEF LoggerInv

LEMMA NextLoggerInv == LoggerInv /\ [LoggerNext]_loggerVars => LoggerInv'
<1> SUFFICES ASSUME LoggerInv, [LoggerNext]_loggerVars PROVE LoggerInv'
  OBVIOUS
<1>0. LoggerTypeOK /\ LoggerStages /\ MarkMeansInstalled /\ OkHoldsTheLog /\ NoWriterLeft
  BY DEF LoggerInv
<1>1. CASE UNCHANGED loggerVars
  BY <1>0, <1>1 DEF loggerVars, LoggerInv, LoggerTypeOK, LoggerStages, MarkMeansInstalled,
     OkHoldsTheLog, NoWriterLeft, Installed
<1>2. /\ initializing \in [Initializers -> Initializings]
      /\ held \in [Initializers -> SUBSET {"console", "file"}]
      /\ answered \in [Initializers -> {"nothing", "ok", "err"}]
      /\ subscriber \in Subscribers /\ marked \in BOOLEAN
  BY <1>0 DEF LoggerTypeOK, Initializings, Subscribers, Filters
<1>3. Rests \in Initializings /\ Rests.at = "idle"
  BY DEF Rests, Initializings
<1>4. ASSUME NEW t \in Initializers
      PROVE  /\ held = [held EXCEPT ![t] = held[t]] /\ held[t] \in SUBSET {"console", "file"}
             /\ answered = [answered EXCEPT ![t] = answered[t]]
             /\ answered[t] \in {"nothing", "ok", "err"}
             /\ initializing[t] \in Initializings
             /\ initializing = [initializing EXCEPT ![t] = initializing[t]]
             /\ \A p : [initializing EXCEPT ![t].at = p]
                          = [initializing EXCEPT ![t] = [initializing[t] EXCEPT !.at = p]]
  BY <1>2
\* The place changes, and the configuration stays.
<1>5. ASSUME NEW t \in Initializers,
             NEW p \in {"build", "install", "mark", "panicked"}
      PROVE  /\ [initializing[t] EXCEPT !.at = p] \in Initializings
             /\ [initializing[t] EXCEPT !.at = p].at = p
             /\ [initializing[t] EXCEPT !.at = p].config = initializing[t].config
             /\ [initializing[t] EXCEPT !.at = p] # Rests
  BY <1>2 DEF Initializings, Rests
<1>6. ASSUME NEW t \in Initializers, NEW setup \in LoggerConfigs, InitCalled(t, setup)
      PROVE  LoggerInv'
  <2> DEFINE i == [at |-> "build", config |-> setup]
  <2>1. i \in Initializings /\ i.at = "build" /\ i.config = setup /\ i # Rests
    BY DEF Initializings, Rests
  <2>2. subscriber.by # t /\ held[t] = {}
    BY <1>0, <1>3, <1>6 DEF InitCalled, LoggerStages, NoWriterLeft
  <2>3. /\ initializing' = [initializing EXCEPT ![t] = i]
        /\ held' = [held EXCEPT ![t] = held[t]] /\ answered' = [answered EXCEPT ![t] = "nothing"]
        /\ subscriber' = subscriber /\ marked' = marked
    BY <1>4, <1>6 DEF InitCalled
  <2> HIDE DEF i
  <2> QED
    BY <1>0, <1>2, <1>3, <1>4, <2>1, <2>2, <2>3, LoggerStep DEF MarkMeansInstalled
<1>7. ASSUME NEW t \in Initializers, InitRefused(t)
      PROVE  LoggerInv'
  <2>1. /\ initializing' = [initializing EXCEPT ![t] = Rests]
        /\ held' = [held EXCEPT ![t] = held[t]] /\ answered' = [answered EXCEPT ![t] = "err"]
        /\ subscriber' = subscriber /\ marked' = marked /\ marked
    BY <1>4, <1>7 DEF InitRefused, Answers
  <2>2. held[t] # {} => subscriber.by = t /\ held[t] = subscriber.layers
    BY <1>0, <1>3, <1>7 DEF InitRefused, NoWriterLeft
  <2> QED
    BY <1>0, <1>2, <1>3, <1>4, <2>1, <2>2, LoggerStep DEF MarkMeansInstalled
<1>8. ASSUME NEW t \in Initializers, StartWriters(t)
      PROVE  LoggerInv'
  <2> DEFINE i == [initializing[t] EXCEPT !.at = "install"]
             h == LayersOf(initializing[t].config)
  <2>1. /\ i \in Initializings /\ i.at = "install" /\ i.config = initializing[t].config
        /\ i # Rests
    BY <1>5
  <2>2. /\ initializing[t].config \in LoggerConfigs /\ answered[t] = "nothing"
        /\ subscriber.by # t
    BY <1>0, <1>3, <1>8 DEF StartWriters, LoggerStages
  <2>3. h \in SUBSET {"console", "file"}
    BY DEF LayersOf
  <2>4. /\ initializing' = [initializing EXCEPT ![t] = i]
        /\ held' = [held EXCEPT ![t] = h] /\ answered' = [answered EXCEPT ![t] = answered[t]]
        /\ subscriber' = subscriber /\ marked' = marked
    BY <1>4, <1>8 DEF StartWriters, Goes
  <2>5. h = LayersOf(i.config)
    BY <2>1
  <2> HIDE DEF i, h
  <2> QED
    BY <1>0, <1>2, <1>3, <1>4, <2>1, <2>2, <2>3, <2>4, <2>5, LoggerStep DEF MarkMeansInstalled
<1>9. ASSUME NEW t \in Initializers, AppenderPanics(t)
      PROVE  LoggerInv'
  <2> DEFINE i == [initializing[t] EXCEPT !.at = "panicked"]
  <2>1. i \in Initializings /\ i.at = "panicked" /\ i # Rests
    BY <1>5
  <2>2. answered[t] = "nothing" /\ subscriber.by # t
    BY <1>0, <1>3, <1>9 DEF AppenderPanics, LoggerStages
  <2>3. /\ initializing' = [initializing EXCEPT ![t] = i]
        /\ held' = [held EXCEPT ![t] = {}] /\ answered' = [answered EXCEPT ![t] = answered[t]]
        /\ subscriber' = subscriber /\ marked' = marked
    BY <1>4, <1>9 DEF AppenderPanics, Goes
  <2> HIDE DEF i
  <2> QED
    BY <1>0, <1>2, <1>3, <1>4, <2>1, <2>2, <2>3, LoggerStep DEF MarkMeansInstalled
<1>10. ASSUME NEW t \in Initializers, Install(t)
       PROVE  LoggerInv'
  <2> DEFINE i == [initializing[t] EXCEPT !.at = "mark"]
  <2>1. /\ i \in Initializings /\ i.at = "mark" /\ i.config = initializing[t].config
        /\ i # Rests
    BY <1>5
  <2>2. /\ initializing[t].config \in LoggerConfigs /\ answered[t] = "nothing"
        /\ held[t] = LayersOf(initializing[t].config)
    BY <1>0, <1>10 DEF Install, LoggerStages
  <2>3. /\ subscriber' \in Subscribers /\ subscriber'.by = t
        /\ subscriber'.layers = LayersOf(i.config) /\ subscriber'.filter = FilterOf(i.config)
        /\ subscriber.by \notin Initializers
    BY <1>10, <2>1, <2>2, SubscribersTyped, LoggerAssumption DEF LoggerAssumption, Install
  <2>4. /\ initializing' = [initializing EXCEPT ![t] = i]
        /\ held' = [held EXCEPT ![t] = held[t]] /\ answered' = [answered EXCEPT ![t] = answered[t]]
        /\ marked' = marked
    BY <1>4, <1>10 DEF Install, Goes
  <2>5. ~marked
    BY <1>0, <2>3 DEF MarkMeansInstalled
  <2> HIDE DEF i
  <2> QED
    <3>1. /\ held[t] = LayersOf(i.config) /\ subscriber'.layers = held[t]
          /\ i.config \in LoggerConfigs /\ marked' \in BOOLEAN
          /\ i.at = "idle" <=> i = Rests
      BY <1>2, <2>1, <2>2, <2>3, <2>4
    <3>2. ~marked' /\ answered[t] = "nothing" /\ held[t] \in SUBSET {"console", "file"}
      BY <1>4, <2>2, <2>4, <2>5
    <3> QED
      BY <2>1, <2>3, <2>4, <2>5, <3>1, <3>2, LoggerStep
<1>11. ASSUME NEW t \in Initializers, InstallRefused(t)
       PROVE  LoggerInv'
  <2>1. /\ initializing' = [initializing EXCEPT ![t] = Rests]
        /\ held' = [held EXCEPT ![t] = {}] /\ answered' = [answered EXCEPT ![t] = "err"]
        /\ subscriber' = subscriber /\ marked' = marked
    BY <1>11 DEF InstallRefused, Answers
  <2>2. subscriber.by # t
    BY <1>0, <1>3, <1>11 DEF InstallRefused, LoggerStages
  <2> QED
    BY <1>0, <1>2, <1>3, <2>1, <2>2, LoggerStep DEF MarkMeansInstalled
<1>12. ASSUME NEW t \in Initializers, Mark(t)
       PROVE  LoggerInv'
  <2>1. /\ initializing' = [initializing EXCEPT ![t] = Rests]
        /\ held' = [held EXCEPT ![t] = held[t]] /\ answered' = [answered EXCEPT ![t] = "ok"]
        /\ subscriber' = subscriber /\ marked' = TRUE
    BY <1>4, <1>12 DEF Mark, Answers
  <2>2. subscriber.by = t /\ held[t] = subscriber.layers
    BY <1>0, <1>12, SubscribersTyped DEF Mark, LoggerStages
  <2> QED
    BY <1>0, <1>2, <1>3, <1>4, <2>1, <2>2, LoggerStep
<1>13. ASSUME NEW t \in Initializers, DropGuard(t)
       PROVE  LoggerInv'
  <2>1. /\ initializing' = [initializing EXCEPT ![t] = initializing[t]]
        /\ held' = [held EXCEPT ![t] = {}] /\ answered' = [answered EXCEPT ![t] = "nothing"]
        /\ subscriber' = subscriber /\ marked' = marked /\ initializing[t] = Rests
    BY <1>4, <1>13 DEF DropGuard
  <2>2. subscriber.by = t => marked
    BY <1>0, <1>3, <2>1 DEF LoggerStages
  <2> QED
    BY <1>0, <1>2, <1>3, <1>4, <2>1, <2>2, LoggerStep DEF MarkMeansInstalled
<1> QED
  BY <1>1, <1>6, <1>7, <1>8, <1>9, <1>10, <1>11, <1>12, <1>13 DEF LoggerNext

\* Logger::init of logger.rs, called by any number of tasks: the flag, the guards, the
\* writers and the filter of the process all belong to the one call that installed its
\* subscriber, and RUST_LOG is heard wherever no directive speaks.
THEOREM OneLogAlways == LoggerSpec => []OneLog
<1>1. LoggerInv => OneLog
  <2> SUFFICES ASSUME LoggerInv PROVE EnvironmentRules
    BY DEF LoggerInv, OneLog
  <2> SUFFICES ASSUME NEW t \in Initializers, initializing[t].at = "mark", Environment # Unset,
                      NEW target \in Targets,
                      \A d \in ToSet(initializing[t].config.directives) :
                          ~ (d = Unreadable \/ d[1] \in {target, Everything})
               PROVE  LevelOf(subscriber.filter, target) = Environment
    BY DEF EnvironmentRules
  <2>1. /\ initializing[t].config \in LoggerConfigs /\ subscriber = Installed(t)
    BY DEF LoggerInv, LoggerStages
  <2>2. subscriber.filter = FilterOf(initializing[t].config)
    BY <2>1, SubscribersTyped
  <2> QED
    BY <2>1, <2>2, EnvironmentStays
<1> QED
  BY InitLoggerInv, NextLoggerInv, <1>1, PTL DEF LoggerSpec

--------------------------------------------------------------------------------
(* The settings.                                                           *)

\* One sequence after the other, step by step.
LEMMA FlattenSteps ==
    ASSUME NEW A, NEW ss \in Seq(Seq(A)), ss # <<>>
    PROVE  LET n == Len(ss)
           IN  /\ n \in Nat \ {0}
               /\ \E f \in [1..n -> Seq(A)] :
                     /\ f[1] = ss[1]
                     /\ \A k \in 2..n : f[k] = f[k - 1] \o ss[k]
                     /\ FlattenSeq(ss) = f[n]
<1> DEFINE n == Len(ss)
           g == [x \in Seq(A) \X (1..n) |-> x[1] \o ss[x[2]]]
           Body(it) == [i \in 1..n |-> IF i = 1 THEN ss[i] ELSE it[i - 1] \o ss[i]]
           F == CHOOSE it : it = Body(it)
<1>1. n \in Nat \ {0} /\ \A i \in 1..n : ss[i] \in Seq(A)
  OBVIOUS
<1>2. FlattenSeq(ss) = F[n]
  BY <1>1 DEF FlattenSeq
<1>3. <<>> \in Seq(A) /\ \A s \in Seq(A) : <<>> \o s = s
  OBVIOUS
<1>4. g \in [Seq(A) \X (1..n) -> Seq(A)]
  BY <1>1
<1>5. PICK it \in [SUBSET (1..n) -> Seq(A)] : FoldOf(it, n, <<>>, g)
  <2> HIDE DEF g, n
  <2> QED
    BY <1>1, <1>3, <1>4, FoldExists
<1>6. it[{}] = <<>> /\ \A k \in 1..n : it[1..(k - 1)] \in Seq(A) /\ it[1..k] \in Seq(A) /\ it[1..k] = it[1..(k - 1)] \o ss[k]
  <2>1. \A s \in SUBSET (1..n) : it[s] = IF s = {} THEN <<>> ELSE g[<<it[s \ {Max(s)}], Max(s)>>]
    BY <1>5 DEF FoldOf
  <2>2. ASSUME NEW k \in 1..n
        PROVE  it[1..(k - 1)] \in Seq(A) /\ it[1..k] \in Seq(A) /\ it[1..k] = it[1..(k - 1)] \o ss[k]
    <3>1. 1..k \in SUBSET (1..n) /\ 1..k # {} /\ Max(1..k) = k /\ (1..k) \ {k} = 1..(k - 1)
      BY <1>1, Intervals
    <3>2. it[1..k] = g[<<it[1..(k - 1)], k>>]
      BY <2>1, <3>1
    <3>3. 1..(k - 1) \in SUBSET (1..n)
      BY <3>1
    <3>4. it[1..(k - 1)] \in Seq(A) /\ it[1..k] \in Seq(A)
      BY <1>5, <3>1, <3>3
    <3> QED
      BY <3>2, <3>4
  <2> QED
    BY <2>1, <2>2
<1> DEFINE f == [i \in 1..n |-> it[1..i]]
<1>7. \A k \in 1..n : f[k] = it[1..k]
  OBVIOUS
<1>8. f \in [1..n -> Seq(A)]
  BY <1>6
<1>9. f[1] = ss[1]
  <2>1. 1 \in 1..n /\ 1..(1 - 1) = {} /\ ss[1] \in Seq(A)
    BY <1>1
  <2>2. it[1..1] = it[{}] \o ss[1]
    BY <1>6, <2>1
  <2> QED
    BY <1>3, <1>6, <1>7, <2>1, <2>2
<1>10. \A k \in 2..n : k - 1 \in 1..n /\ f[k] = f[k - 1] \o ss[k]
  <2> SUFFICES ASSUME NEW k \in 2..n PROVE k - 1 \in 1..n /\ f[k] = f[k - 1] \o ss[k]
    OBVIOUS
  <2>1. k \in 1..n /\ k - 1 \in 1..n
    BY <1>1
  <2> HIDE DEF f, n
  <2> QED
    BY <1>6, <1>7, <2>1
<1>11. f = Body(f)
  <2>1. \A i \in 1..n : f[i] = IF i = 1 THEN ss[i] ELSE f[i - 1] \o ss[i]
    <3> SUFFICES ASSUME NEW i \in 1..n PROVE f[i] = IF i = 1 THEN ss[i] ELSE f[i - 1] \o ss[i]
      OBVIOUS
    <3>1. i = 1 \/ i \in 2..n
      BY <1>1
    <3> HIDE DEF f, n
    <3> QED
      BY <1>9, <1>10, <3>1
  <2> HIDE DEF f, n
  <2> QED
    BY <1>8, <2>1
<1>12. F = Body(F)
  <2> HIDE DEF f
  <2> QED
    BY <1>11
<1>13. \A i \in 1..n : F[i] = IF i = 1 THEN ss[i] ELSE F[i - 1] \o ss[i]
  <2> HIDE DEF F, n
  <2> QED
    BY <1>12
<1>14. \A k \in 0..n : k = 0 \/ F[k] = f[k]
  <2> DEFINE S == {k \in 0..n : k = 0 \/ F[k] = f[k]}
  <2> HIDE DEF F, f, n
  <2>1. 0 \in S
    BY <1>1
  <2>2. ASSUME NEW k \in 0..(n - 1), k \in S PROVE k + 1 \in S
    <3>1. k + 1 \in 1..n /\ k + 1 \in 0..n /\ (k + 1) - 1 = k
      BY <1>1
    <3>2. CASE k = 0
      BY <1>9, <1>13, <3>1, <3>2
    <3>3. CASE k # 0
      <4>1. k + 1 \in 2..n
        BY <1>1, <3>1, <3>3
      <4>2. F[k] = f[k]
        BY <2>2, <3>3
      <4>3. f[k + 1] = f[k] \o ss[k + 1]
        BY <1>10, <3>1, <4>1
      <4>4. F[k + 1] = F[k] \o ss[k + 1]
        <5>1. k + 1 # 1
          BY <3>3
        <5> QED
          BY <1>13, <3>1, <5>1
      <4> QED
        BY <3>1, <4>2, <4>3, <4>4
    <3> QED
      BY <3>2, <3>3
  <2>3. n \in Nat
    BY <1>1
  <2>4. \A k \in 0..n : k \in S
    <3> HIDE DEF S
    <3> QED
      BY <2>1, <2>2, <2>3, UpTo
  <2> QED
    BY <2>4
<1>15. FlattenSeq(ss) = f[n]
  <2> HIDE DEF F, f
  <2>1. n \in 0..n /\ n # 0
    BY <1>1
  <2> QED
    BY <1>2, <1>14, <2>1
<1>16. \E h \in [1..n -> Seq(A)] :
          /\ h[1] = ss[1]
          /\ \A k \in 2..n : h[k] = h[k - 1] \o ss[k]
          /\ FlattenSeq(ss) = h[n]
  <2> HIDE DEF f, n
  <2> QED
    BY <1>8, <1>9, <1>10, <1>15
<1> QED
  BY <1>1, <1>16

LEMMA SeqIsFunction ==
    ASSUME NEW X, NEW q \in Seq(X), NEW m, Len(q) = m
    PROVE  q = [i \in 1..m |-> q[i]]
OBVIOUS

LEMMA FlattenOne ==
    ASSUME NEW A, NEW s \in Seq(A)
    PROVE  FlattenSeq(<<s>>) = s
<1>1. <<s>> \in Seq(Seq(A)) /\ <<s>> # <<>> /\ Len(<<s>>) = 1 /\ <<s>>[1] = s
  OBVIOUS
<1>2. PICK f \in [1..1 -> Seq(A)] : f[1] = <<s>>[1] /\ FlattenSeq(<<s>>) = f[1]
  BY <1>1, FlattenSteps
<1> QED
  BY <1>1, <1>2

LEMMA FlattenAppend ==
    ASSUME NEW A, NEW ss \in Seq(Seq(A)), ss # <<>>, NEW s \in Seq(A)
    PROVE  /\ FlattenSeq(ss) \in Seq(A)
           /\ FlattenSeq(Append(ss, s)) = FlattenSeq(ss) \o s
<1> DEFINE n == Len(ss)
           tt == Append(ss, s)
<1>1. n \in Nat \ {0} /\ tt \in Seq(Seq(A)) /\ tt # <<>> /\ Len(tt) = n + 1 /\ tt[n + 1] = s
      /\ \A k \in 1..n : tt[k] = ss[k]
  OBVIOUS
<1>2. PICK f \in [1..n -> Seq(A)] : f[1] = ss[1] /\ (\A k \in 2..n : f[k] = f[k - 1] \o ss[k])
                                  /\ FlattenSeq(ss) = f[n]
  BY FlattenSteps
<1> HIDE DEF n, tt
<1>3. PICK h \in [1..(n + 1) -> Seq(A)] :
             h[1] = tt[1] /\ (\A k \in 2..(n + 1) : h[k] = h[k - 1] \o tt[k])
             /\ FlattenSeq(tt) = h[n + 1]
  <2>1. \E h \in [1..Len(tt) -> Seq(A)] :
             h[1] = tt[1] /\ (\A k \in 2..Len(tt) : h[k] = h[k - 1] \o tt[k])
             /\ FlattenSeq(tt) = h[Len(tt)]
    BY <1>1, FlattenSteps
  <2>2. Len(tt) = n + 1
    BY <1>1
  <2> QED
    BY ONLY <2>1, <2>2, Zenon
<1> DEFINE S == {k \in 0..n : k = 0 \/ h[k] = f[k]}
<1>4. 0 \in S
  BY <1>1
<1>5. ASSUME NEW k \in 0..(n - 1), k \in S PROVE k + 1 \in S
  <2>1. k + 1 \in 1..n /\ k + 1 \in 0..n /\ (k + 1) - 1 = k
    BY <1>1
  <2>2. CASE k = 0
    BY <1>1, <1>2, <1>3, <2>1, <2>2
  <2>3. CASE k # 0
    <3>1. k + 1 \in 2..n /\ k + 1 \in 2..(n + 1)
      BY <1>1, <2>1, <2>3
    <3>2. h[k] = f[k]
      BY <1>5, <2>3
    <3>3. f[k + 1] = f[k] \o ss[k + 1]
      BY <1>2, <2>1, <3>1
    <3>4. h[k + 1] = h[k] \o tt[k + 1]
      BY <1>3, <2>1, <3>1
    <3> QED
      BY <1>1, <2>1, <3>2, <3>3, <3>4
  <2> QED
    BY <2>2, <2>3
<1>6. \A k \in 0..n : k \in S
  <2> HIDE DEF S
  <2>1. n \in Nat
    BY <1>1
  <2> QED
    BY <1>4, <1>5, <2>1, UpTo
<1>7. h[n] = f[n]
  <2>1. n \in 0..n /\ n # 0
    BY <1>1
  <2> QED
    BY <1>6, <2>1
<1>8. h[n + 1] = h[n] \o tt[n + 1]
  <2>1. n + 1 \in 2..(n + 1) /\ (n + 1) - 1 = n
    BY <1>1
  <2> QED
    BY <1>3, <2>1
<1>9. f[n] \in Seq(A)
  BY <1>1, <1>2
<1> QED
  BY <1>1, <1>2, <1>3, <1>7, <1>8, <1>9 DEF tt

--------------------------------------------------------------------------------
FileSaid == UNION {{file[f] : f \in DOMAIN file} : file \in FileSettings}

Said == BOOLEAN \cup Seq(Dirs) \cup Dirs
        \cup {DefaultOf[f] : f \in DOMAIN DefaultOf}
        \cup (UNION {ValuesOf[f] : f \in DOMAIN ValuesOf})
        \cup FileSaid

Configurations ==
    {c \in [Fields -> Said] : c["file_output"] \in BOOLEAN /\ c["module_dirs"] \in Seq(Dirs)}

SettingsTypes ==
    /\ settings \in Configurations /\ draft \in Configurations
    /\ layers \in Seq(Configurations) /\ layers # <<>>

SettingsInv == SettingsTypes /\ LayersAddUp

LEMMA DefaultIsOne == Default \in Configurations
<1>1. Fields = DOMAIN DefaultOf \cup {"module_dirs"}
  BY CoreSettingsAssumption DEF Fields
<1>2. \A f \in DOMAIN DefaultOf : DefaultOf[f] \in Said
  BY DEF Said
<1>3. <<>> \in Seq(Dirs) /\ <<>> \in Said
  BY DEF Said
<1>4. Default \in [Fields -> Said]
  BY <1>1, <1>2, <1>3 DEF Default
<1>5. "module_dirs" \in Fields /\ "file_output" \in Fields
  BY DEF Fields, Overridable
<1> QED
  BY <1>3, <1>4, <1>5, CoreSettingsAssumption DEF Default, Configurations

LEMMA MergeIsOne ==
    ASSUME NEW a \in Configurations, NEW b \in Configurations
    PROVE  Merge(a, b) \in Configurations
<1>1. a \in [Fields -> Said] /\ b \in [Fields -> Said]
      /\ a["file_output"] \in BOOLEAN /\ b["file_output"] \in BOOLEAN
      /\ a["module_dirs"] \in Seq(Dirs) /\ b["module_dirs"] \in Seq(Dirs)
  BY DEF Configurations
<1>2. a["module_dirs"] \o b["module_dirs"] \in Seq(Dirs)
  BY <1>1
<1>3. a["module_dirs"] \o b["module_dirs"] \in Said
  BY <1>2 DEF Said
<1>4. "module_dirs" \in Fields /\ "file_output" \in Fields /\ "file_output" \in Overridable
      /\ "module_dirs" \notin Overridable
  BY DEF Fields, Overridable
<1>5. Merge(a, b) \in [Fields -> Said]
  BY <1>1, <1>3 DEF Merge
<1>6. Merge(a, b)["module_dirs"] = a["module_dirs"] \o b["module_dirs"]
  BY <1>4 DEF Merge
<1>7. Merge(a, b)["file_output"] \in BOOLEAN
  BY <1>1, <1>4 DEF Merge
<1> QED
  BY <1>2, <1>5, <1>6, <1>7 DEF Configurations

LEMMA BuilderTyped ==
    ASSUME SettingsTypes, SetField \/ FileLogging \/ ModuleDir \/ FromFile
    PROVE  draft' \in Configurations
<1>1. draft \in [Fields -> Said]
      /\ draft["file_output"] \in BOOLEAN /\ draft["module_dirs"] \in Seq(Dirs)
  BY DEF SettingsTypes, Configurations
<1>2. "module_dirs" \in Fields /\ "file_output" \in Fields /\ "log_dir" \in Fields
      /\ "module_dirs" \notin Overridable \cup Kept
  BY DEF Fields, Overridable, Kept
<1>3. CASE SetField
  <2>0. PICK f \in DOMAIN ValuesOf : \E v \in ValuesOf[f] : draft' = [draft EXCEPT ![f] = v]
    BY <1>3 DEF SetField
  <2>1. PICK v \in ValuesOf[f] : draft' = [draft EXCEPT ![f] = v]
    BY <2>0
  <2>2. v \in Said
    BY DEF Said
  <2>3. f \in Fields /\ f # "file_output" /\ f # "module_dirs"
    BY <1>2, CoreSettingsAssumption DEF Fields
  <2> QED
    BY <1>1, <1>2, <2>1, <2>2, <2>3 DEF Configurations
<1>4. CASE FileLogging
  <2>1. PICK dir \in Dirs : draft' = [draft EXCEPT !["file_output"] = TRUE, !["log_dir"] = dir]
    BY <1>4 DEF FileLogging
  <2>2. dir \in Said /\ TRUE \in Said
    BY DEF Said
  <2> QED
    BY <1>1, <1>2, <2>1, <2>2 DEF Configurations
<1>5. CASE ModuleDir
  <2>1. PICK dir \in Dirs :
          draft' = [draft EXCEPT !["module_dirs"] = Append(draft["module_dirs"], dir)]
    BY <1>5 DEF ModuleDir
  <2>2. Append(draft["module_dirs"], dir) \in Seq(Dirs)
    BY <1>1
  <2>3. Append(draft["module_dirs"], dir) \in Said
    BY <2>2 DEF Said
  <2> QED
    BY <1>1, <1>2, <2>1, <2>2, <2>3 DEF Configurations
<1>6. CASE FromFile
  <2>1. PICK file \in FileSettings :
          draft' = [f \in Fields |-> IF f \in DOMAIN file THEN file[f] ELSE Default[f]]
    BY <1>6 DEF FromFile
  <2>2. Default \in [Fields -> Said]
        /\ Default["file_output"] \in BOOLEAN /\ Default["module_dirs"] \in Seq(Dirs)
    BY DefaultIsOne DEF Configurations
  <2>3. \A f \in DOMAIN file : file[f] \in Said
    <3>1. {file[f] : f \in DOMAIN file} \in {{other[f] : f \in DOMAIN other} : other \in FileSettings}
      OBVIOUS
    <3>2. \A f \in DOMAIN file : file[f] \in {file[g] : g \in DOMAIN file}
      OBVIOUS
    <3>3. \A f \in DOMAIN file : file[f] \in FileSaid
      BY <3>1, <3>2, Zenon DEF FileSaid
    <3>4. FileSaid \subseteq Said
      BY DEF Said
    <3> QED
      BY <3>3, <3>4
  <2>4. draft' \in [Fields -> Said]
    BY <2>1, <2>2, <2>3
  <2>5. draft'["file_output"] \in BOOLEAN /\ draft'["module_dirs"] \in Seq(Dirs)
    BY <1>2, <2>1, <2>2, CoreSettingsAssumption
  <2> QED
    BY <2>4, <2>5 DEF Configurations
<1> QED
  BY <1>3, <1>4, <1>5, <1>6

\* One layer says what it says.
LEMMA BaseAddsUp == settings \in Configurations /\ layers = <<settings>> => LayersAddUp
<1> SUFFICES ASSUME settings \in Configurations, layers = <<settings>>
             PROVE  LayersAddUp
  OBVIOUS
<1>1. layers[1] = settings /\ DOMAIN layers = {1}
  OBVIOUS
<1>2. LastWordHolds
  BY <1>1 DEF LastWordHolds, IsLast
<1>3. settings["file_output"] \in BOOLEAN /\ settings["module_dirs"] \in Seq(Dirs)
  BY DEF Configurations
<1>4. LogsGoWhereTold
  BY <1>1, <1>3 DEF LogsGoWhereTold, LogFile
<1>5. [i \in DOMAIN layers |-> layers[i]["module_dirs"]] = <<settings["module_dirs"]>>
  BY <1>1
<1>6. AllDirsInOrder
  BY <1>3, <1>5, FlattenOne DEF AllDirsInOrder
<1> QED
  BY <1>2, <1>4, <1>6 DEF LayersAddUp

LEMMA DirsOneMore ==
    ASSUME NEW ls \in Seq(Configurations), NEW d \in Configurations
    PROVE  [i \in DOMAIN Append(ls, d) |-> Append(ls, d)[i]["module_dirs"]]
           = Append([i \in DOMAIN ls |-> ls[i]["module_dirs"]], d["module_dirs"])
<1> DEFINE n == Len(ls)
           ss == [i \in DOMAIN ls |-> ls[i]["module_dirs"]]
           tt == [i \in DOMAIN Append(ls, d) |-> Append(ls, d)[i]["module_dirs"]]
<1>1. n \in Nat /\ DOMAIN ls = 1..n /\ DOMAIN Append(ls, d) = 1..(n + 1)
      /\ Append(ls, d)[n + 1] = d
      /\ \A i \in 1..n : Append(ls, d)[i] = ls[i] /\ ls[i] \in Configurations
  OBVIOUS
<1> HIDE DEF n
<1>2. d["module_dirs"] \in Seq(Dirs) /\ \A i \in 1..n : ls[i]["module_dirs"] \in Seq(Dirs)
  BY <1>1 DEF Configurations
<1>3. ss \in Seq(Seq(Dirs)) /\ Len(ss) = n /\ \A i \in 1..n : ss[i] = ls[i]["module_dirs"]
  BY <1>1, <1>2
<1> HIDE DEF ss
<1>4. \A i \in 1..(n + 1) : i = n + 1 \/ i \in 1..n
  BY <1>1
<1>5. tt = [i \in 1..(n + 1) |-> IF i = n + 1 THEN d["module_dirs"] ELSE ss[i]]
  <2> SUFFICES \A i \in 1..(n + 1) :
        Append(ls, d)[i]["module_dirs"] = IF i = n + 1 THEN d["module_dirs"] ELSE ss[i]
    BY <1>1
  <2> QED
    BY <1>1, <1>3, <1>4
<1>6. Append(ss, d["module_dirs"]) = [i \in 1..(n + 1) |-> IF i = n + 1 THEN d["module_dirs"] ELSE ss[i]]
  <2> DEFINE s == d["module_dirs"]
             q == Append(ss, s)
  <2>1. s \in Seq(Dirs)
    BY <1>2
  <2> HIDE DEF s
  <2>2. /\ q \in Seq(Seq(Dirs)) /\ Len(q) = n + 1
        /\ \A i \in 1..(n + 1) : q[i] = IF i = n + 1 THEN s ELSE ss[i]
    BY <1>1, <1>3, <1>4, <2>1
  <2> HIDE DEF q
  <2>3. q = [i \in 1..(n + 1) |-> q[i]]
    BY <2>2, SeqIsFunction
  <2>4. q = [i \in 1..(n + 1) |-> IF i = n + 1 THEN s ELSE ss[i]]
    BY <2>2, <2>3
  <2> QED
    BY <2>4 DEF q, s
<1> QED
  BY <1>5, <1>6 DEF ss

\* One more: what it says is the last word, and its directories come last.
LEMMA MergeAddsUp ==
    ASSUME SettingsInv, NEW d \in Configurations,
           settings' = Merge(settings, d), layers' = Append(layers, d)
    PROVE  LayersAddUp'
<1> DEFINE n == Len(layers)
<1>1. n \in Nat \ {0} /\ DOMAIN layers = 1..n /\ DOMAIN layers' = 1..(n + 1)
      /\ layers'[n + 1] = d /\ (\A i \in 1..n : layers'[i] = layers[i] /\ layers[i] \in Configurations)
      /\ 1 \in 1..n
  BY DEF SettingsInv, SettingsTypes
<1>2. settings \in Configurations /\ LayersAddUp
  BY DEF SettingsInv, SettingsTypes
<1> HIDE DEF n
<1>3. \A f \in Overridable : settings'[f] = IF d[f] # DefaultOf[f] THEN d[f] ELSE settings[f]
  BY DEF Merge, Fields, Overridable
<1>4. \A f \in Kept : settings'[f] = settings[f]
  BY DEF Merge, Fields, Kept, Overridable
<1>5. settings'["log_dir"] = IF d["file_output"] THEN d["log_dir"] ELSE settings["log_dir"]
  BY DEF Merge, Fields, Overridable
<1>6. settings'["module_dirs"] = settings["module_dirs"] \o d["module_dirs"]
  BY DEF Merge, Fields, Overridable
<1>7. LastWordHolds'
  <2>1. ASSUME NEW f \in Overridable
        PROVE  \E i \in 1..(n + 1) :
                  /\ settings'[f] = layers'[i][f]
                  /\ i = 1 \/ layers'[i][f] # DefaultOf[f]
                  /\ \A j \in 1..(n + 1) : j > i => ~(layers'[j][f] # DefaultOf[f])
    <3>1. CASE d[f] # DefaultOf[f]
      <4>1. settings'[f] = layers'[n + 1][f] /\ layers'[n + 1][f] # DefaultOf[f]
        BY <1>1, <1>3, <3>1
      <4>2. n + 1 \in 1..(n + 1) /\ \A j \in 1..(n + 1) : ~ (j > n + 1)
        BY <1>1
      <4> QED
        BY <4>1, <4>2
    <3>2. CASE d[f] = DefaultOf[f]
      <4>1. PICK i \in 1..n :
              /\ settings[f] = layers[i][f]
              /\ i = 1 \/ layers[i][f] # DefaultOf[f]
              /\ \A j \in 1..n : j > i => ~(layers[j][f] # DefaultOf[f])
        BY <1>1, <1>2 DEF LayersAddUp, LastWordHolds, IsLast
      <4>2. settings'[f] = layers'[i][f] /\ i \in 1..(n + 1)
            /\ (i = 1 \/ layers'[i][f] # DefaultOf[f])
        BY <1>1, <1>3, <3>2, <4>1
      <4>3. ASSUME NEW j \in 1..(n + 1), j > i PROVE layers'[j][f] = DefaultOf[f]
        <5>1. j = n + 1 \/ j \in 1..n
          BY <1>1
        <5> QED
          BY <1>1, <3>2, <4>1, <4>3, <5>1
      <4> QED
        BY <4>2, <4>3
    <3> QED
      BY <3>1, <3>2
  <2>2. \A f \in Kept : settings'[f] = layers'[1][f]
    BY <1>1, <1>2, <1>4 DEF LayersAddUp, LastWordHolds
  <2> QED
    BY <1>1, <2>1, <2>2 DEF LastWordHolds, IsLast
<1>8. d["file_output"] \in BOOLEAN /\ settings["file_output"] \in BOOLEAN
  BY <1>2 DEF Configurations
<1>9. LogsGoWhereTold'
  <2>1. "file_output" \in Overridable
    BY DEF Overridable
  <2>2. settings'["file_output"] = (d["file_output"] \/ settings["file_output"])
    BY <1>3, <1>8, <2>1, CoreSettingsAssumption
  <2>3. CASE d["file_output"]
    <3>1. LogFile(settings)' = layers'[n + 1]["log_dir"] /\ layers'[n + 1]["file_output"]
      BY <1>1, <1>5, <2>2, <2>3 DEF LogFile
    <3>2. n + 1 \in 1..(n + 1) /\ \A j \in 1..(n + 1) : ~ (j > n + 1)
      BY <1>1
    <3> QED
      BY <1>1, <3>1, <3>2 DEF LogsGoWhereTold
  <2>4. CASE ~ d["file_output"]
    <3>1. LogFile(settings)' = LogFile(settings)
      BY <1>5, <1>8, <2>2, <2>4 DEF LogFile
    <3>2. CASE \A i \in 1..n : ~ layers[i]["file_output"]
      <4>1. \A i \in 1..(n + 1) : ~ layers'[i]["file_output"]
        <5>1. \A i \in 1..(n + 1) : i = n + 1 \/ i \in 1..n
          BY <1>1
        <5> QED
          BY <1>1, <2>4, <3>2, <5>1
      <4>2. LogFile(settings) = NoDir
        BY <1>1, <1>2, <3>2 DEF LayersAddUp, LogsGoWhereTold
      <4> QED
        BY <1>1, <3>1, <4>1, <4>2 DEF LogsGoWhereTold
    <3>3. CASE ~ \A i \in 1..n : ~ layers[i]["file_output"]
      <4>1. PICK i \in 1..n :
              /\ layers[i]["file_output"]
              /\ \A j \in 1..n : j > i => ~layers[j]["file_output"]
              /\ LogFile(settings) = layers[i]["log_dir"]
        BY <1>1, <1>2, <3>3 DEF LayersAddUp, LogsGoWhereTold
      <4>2. i \in 1..(n + 1) /\ layers'[i] = layers[i]
        BY <1>1
      <4>3. ASSUME NEW j \in 1..(n + 1), j > i PROVE ~ layers'[j]["file_output"]
        <5>1. j = n + 1 \/ j \in 1..n
          BY <1>1
        <5> QED
          BY <1>1, <2>4, <4>1, <4>3, <5>1
      <4> QED
        BY <1>1, <3>1, <4>1, <4>2, <4>3 DEF LogsGoWhereTold
    <3> QED
      BY <3>2, <3>3
  <2> QED
    BY <2>3, <2>4
<1>10. AllDirsInOrder'
  <2> DEFINE ss == [i \in DOMAIN layers |-> layers[i]["module_dirs"]]
             tt == [i \in DOMAIN layers' |-> layers'[i]["module_dirs"]]
             s == d["module_dirs"]
  <2>1. s \in Seq(Dirs)
    BY DEF Configurations
  <2>2. \A i \in 1..n : layers[i]["module_dirs"] \in Seq(Dirs)
    BY <1>1 DEF Configurations
  <2>3. ss \in Seq(Seq(Dirs)) /\ ss # <<>> /\ Len(ss) = n
    BY <1>1, <2>2
  <2>4. tt = Append(ss, s)
    <3>1. layers \in Seq(Configurations) /\ layers' = Append(layers, d)
      BY DEF SettingsInv, SettingsTypes
    <3> HIDE DEF s
    <3> QED
      BY <3>1, DirsOneMore, Zenon DEF s
  <2>5. FlattenSeq(ss) = settings["module_dirs"]
    BY <1>2 DEF LayersAddUp, AllDirsInOrder
  <2>6. FlattenSeq(tt) = FlattenSeq(ss) \o s
    <3> HIDE DEF tt, ss, s
    <3> QED
      BY <2>1, <2>3, <2>4, FlattenAppend
  <2>7. settings'["module_dirs"] = FlattenSeq(tt)
    <3> HIDE DEF tt, ss
    <3> QED
      BY <1>6, <2>5, <2>6
  <2> QED
    BY <2>7 DEF AllDirsInOrder
<1> QED
  BY <1>7, <1>9, <1>10 DEF LayersAddUp

LEMMA InitSettings == SettingsInit => SettingsInv
<1> SUFFICES ASSUME SettingsInit PROVE SettingsInv
  OBVIOUS
<1>1. settings = Default /\ layers = <<settings>> /\ draft = Default
  BY DEF SettingsInit
<1>2. SettingsTypes
  BY <1>1, DefaultIsOne DEF SettingsTypes
<1>3. LayersAddUp
  BY <1>1, <1>2, BaseAddsUp DEF SettingsTypes
<1> QED
  BY <1>2, <1>3 DEF SettingsInv

LEMMA NextSettings == SettingsInv /\ [SettingsNext]_settingsVars => SettingsInv'
<1> SUFFICES ASSUME SettingsInv, [SettingsNext]_settingsVars PROVE SettingsInv'
  OBVIOUS
<1>1. SettingsTypes /\ LayersAddUp
  BY DEF SettingsInv
<1>2. CASE UNCHANGED <<settings, layers>> /\ draft' \in Configurations
  <2>1. SettingsTypes'
    BY <1>1, <1>2 DEF SettingsTypes
  <2>2. LayersAddUp'
    BY <1>1, <1>2 DEF LayersAddUp, LastWordHolds, LogsGoWhereTold, AllDirsInOrder, IsLast, LogFile
  <2> QED
    BY <2>1, <2>2 DEF SettingsInv
<1>3. CASE SetField \/ FileLogging \/ ModuleDir \/ FromFile
  BY <1>1, <1>2, <1>3, BuilderTyped DEF SetField, FileLogging, ModuleDir, FromFile, BuilderCall
<1>4. CASE UseAsBase
  <2>1. PICK dev \in BOOLEAN : settings' = IF dev THEN [draft EXCEPT !["dev_mode"] = TRUE] ELSE draft
    BY <1>4 DEF UseAsBase
  <2>2. draft \in [Fields -> Said]
        /\ draft["file_output"] \in BOOLEAN /\ draft["module_dirs"] \in Seq(Dirs)
    BY <1>1 DEF SettingsTypes, Configurations
  <2>3. TRUE \in Said /\ "dev_mode" \in Fields
    BY DEF Said, Fields, Overridable
  <2>4. settings' \in Configurations
    <3>1. [draft EXCEPT !["dev_mode"] = TRUE] \in Configurations
      <4> DEFINE c == [draft EXCEPT !["dev_mode"] = TRUE]
      <4>1. c \in [Fields -> Said]
        BY <2>2, <2>3
      <4>2. "file_output" \in Fields /\ "module_dirs" \in Fields
        BY DEF Fields, Overridable
      <4>3. c["file_output"] = draft["file_output"] /\ c["module_dirs"] = draft["module_dirs"]
        BY <2>2, <4>2
      <4> HIDE DEF c
      <4>4. c \in Configurations
        BY <2>2, <4>1, <4>3 DEF Configurations
      <4> QED
        BY <4>4 DEF c
    <3> QED
      BY <1>1, <2>1, <3>1 DEF SettingsTypes
  <2>5. layers' = <<settings'>> /\ draft' = Default
    BY <1>4 DEF UseAsBase
  <2>6. SettingsTypes'
    BY <2>4, <2>5, DefaultIsOne DEF SettingsTypes
  <2>7. LayersAddUp'
    <3>1. (settings \in Configurations /\ layers = <<settings>> => LayersAddUp)'
      BY BaseAddsUp, PTL
    <3> QED
      BY <2>4, <2>5, <3>1, Zenon
  <2> QED
    BY <2>6, <2>7 DEF SettingsInv
<1>5. CASE MergeDraft
  <2>1. settings' = Merge(settings, draft) /\ layers' = Append(layers, draft) /\ draft' = Default
    BY <1>5 DEF MergeDraft
  <2>2. SettingsTypes'
    BY <1>1, <2>1, DefaultIsOne, MergeIsOne DEF SettingsTypes
  <2>3. LayersAddUp'
    BY <1>1, <2>1, MergeAddsUp DEF SettingsTypes
  <2> QED
    BY <2>2, <2>3 DEF SettingsInv
<1>6. CASE UNCHANGED settingsVars
  BY <1>1, <1>2, <1>6 DEF settingsVars, SettingsTypes
<1> QED
  BY <1>3, <1>4, <1>5, <1>6 DEF SettingsNext

\* CoreConfig and CoreConfigBuilder of config.rs, for any number of layers: each field is
\* what the last layer said that can say it, the log goes where that tells, and the
\* module directories are those of every layer, the oldest first.
THEOREM LayersAlwaysAddUp == SettingsSpec => []LayersAddUp
<1>1. SettingsInv => LayersAddUp
  BY DEF SettingsInv
<1> QED
  BY <1>1, InitSettings, NextSettings, PTL DEF SettingsSpec

--------------------------------------------------------------------------------
(* The configuration store: operators on configurations.                   *)

Paths == Seq(Words)

LEMMA PrefixIs ==
    ASSUME NEW p \in Paths, NEW q \in Paths
    PROVE  IsPrefix(p, q) <=> Len(p) <= Len(q) /\ \A i \in 1..Len(p) : p[i] = q[i]
<1>1. SubSeq(p, 1, Len(p)) = p
  BY DEF Paths
<1>2. CASE Len(p) <= Len(q)
  <2> DEFINE s == SubSeq(q, 1, Len(p))
  <2>1. s \in Paths /\ Len(s) = Len(p) /\ \A i \in 1..Len(p) : s[i] = q[i]
    BY <1>2 DEF Paths
  <2> HIDE DEF s
  <2>2. (p = s) <=> \A i \in 1..Len(p) : p[i] = s[i]
    BY <2>1, SeqEqual DEF Paths
  <2>3. IsPrefix(p, q) <=> p = s
    BY <1>1, <1>2 DEF IsPrefix, s
  <2> QED
    BY <1>2, <2>1, <2>2, <2>3
<1>3. CASE ~ (Len(p) <= Len(q))
  BY <1>3 DEF IsPrefix
<1> QED
  BY <1>2, <1>3

LEMMA PrefixesAre ==
    ASSUME NEW q \in Paths, NEW p
    PROVE  p \in Prefixes(q) <=> p \in Paths /\ IsPrefix(p, q)
<1>1. ASSUME p \in Prefixes(q) PROVE p \in Paths /\ IsPrefix(p, q)
  <2>1. PICK l \in 0..Len(q) : p = SubSeq(q, 1, l)
    BY <1>1 DEF Prefixes
  <2>2. p \in Paths /\ Len(p) = l /\ \A i \in 1..l : p[i] = q[i]
    BY <2>1 DEF Paths
  <2>3. Len(p) <= Len(q)
    BY <2>1, <2>2 DEF Paths
  <2> QED
    BY <2>2, <2>3, PrefixIs
<1>2. ASSUME p \in Paths, IsPrefix(p, q) PROVE p \in Prefixes(q)
  <2>1. Len(p) \in 0..Len(q)
    BY <1>2 DEF Paths, IsPrefix
  <2>2. SubSeq(p, 1, Len(p)) = p
    BY <1>2 DEF Paths
  <2>3. p = SubSeq(q, 1, Len(p))
    BY <1>2, <2>2 DEF IsPrefix
  <2> QED
    BY <2>1, <2>3 DEF Prefixes
<1> QED
  BY <1>1, <1>2

LEMMA PrefixTrans ==
    ASSUME NEW p \in Paths, NEW q \in Paths, NEW r \in Paths, IsPrefix(p, q), IsPrefix(q, r)
    PROVE  IsPrefix(p, r)
<1>1. Len(p) \in Nat /\ Len(q) \in Nat /\ Len(r) \in Nat
  BY DEF Paths
<1>2. Len(p) <= Len(q) /\ (\A i \in 1..Len(p) : p[i] = q[i])
  BY PrefixIs
<1>3. Len(q) <= Len(r) /\ (\A i \in 1..Len(q) : q[i] = r[i])
  BY PrefixIs
<1>4. Len(p) <= Len(r) /\ (\A i \in 1..Len(p) : p[i] = r[i])
  BY <1>1, <1>2, <1>3
<1> QED
  BY <1>4, PrefixIs

LEMMA PrefixBoth ==
    ASSUME NEW p \in Paths, NEW q \in Paths, IsPrefix(p, q), IsPrefix(q, p)
    PROVE  p = q
<1>1. Len(p) \in Nat /\ Len(q) \in Nat
  BY DEF Paths
<1>2. Len(p) <= Len(q) /\ (\A i \in 1..Len(p) : p[i] = q[i])
  BY PrefixIs
<1>3. Len(q) <= Len(p)
  BY PrefixIs
<1>4. Len(p) = Len(q)
  BY <1>1, <1>2, <1>3
<1> QED
  BY <1>2, <1>4, SeqEqual DEF Paths

\* Two prefixes of one path: the shorter is a prefix of the longer.
LEMMA PrefixesCompare ==
    ASSUME NEW p \in Paths, NEW q \in Paths, NEW r \in Paths, IsPrefix(p, r), IsPrefix(q, r)
    PROVE  IsPrefix(p, q) \/ IsPrefix(q, p)
<1>1. Len(p) \in Nat /\ Len(q) \in Nat
  BY DEF Paths
<1>2. Len(p) <= Len(r) /\ (\A i \in 1..Len(p) : p[i] = r[i])
  BY PrefixIs
<1>3. Len(q) <= Len(r) /\ (\A i \in 1..Len(q) : q[i] = r[i])
  BY PrefixIs
<1>4. CASE Len(p) <= Len(q)
  <2>1. \A i \in 1..Len(p) : p[i] = q[i]
    BY <1>1, <1>2, <1>3, <1>4
  <2> QED
    BY <1>4, <2>1, PrefixIs
<1>5. CASE Len(q) <= Len(p)
  <2>1. \A i \in 1..Len(q) : q[i] = p[i]
    BY <1>1, <1>2, <1>3, <1>5
  <2> QED
    BY <1>5, <2>1, PrefixIs
<1> QED
  BY <1>1, <1>4, <1>5

LEMMA PrefixEnds ==
    ASSUME NEW p \in Paths
    PROVE  <<>> \in Paths /\ IsPrefix(<<>>, p) /\ IsPrefix(p, p) /\ (IsPrefix(p, <<>>) => p = <<>>)
<1>1. <<>> \in Paths /\ Len(p) \in Nat /\ Len(<<>>) = 0 /\ (Len(p) = 0 => p = <<>>)
  BY DEF Paths
<1>2. IsPrefix(<<>>, p) /\ IsPrefix(p, p)
  BY <1>1, PrefixIs
<1>3. IsPrefix(p, <<>>) => Len(p) <= 0
  BY <1>1, PrefixIs
<1> QED
  BY <1>1, <1>2, <1>3

LEMMA PrefixAndRest ==
    ASSUME NEW p \in Paths, NEW q \in Paths, IsPrefix(p, q)
    PROVE  p \o SubSeq(q, Len(p) + 1, Len(q)) = q
<1> DEFINE s == SubSeq(q, Len(p) + 1, Len(q))
           r == p \o s
<1>1. Len(p) \in Nat /\ Len(q) \in Nat /\ Len(p) <= Len(q) /\ (\A i \in 1..Len(p) : p[i] = q[i])
  BY PrefixIs DEF Paths
<1>2. s \in Paths /\ Len(s) = Len(q) - Len(p) /\ \A i \in 1..Len(s) : s[i] = q[Len(p) + i]
  BY <1>1 DEF Paths
<1> HIDE DEF s
<1>3. r \in Paths /\ Len(r) = Len(q)
  BY <1>1, <1>2 DEF Paths
<1>4. \A i \in 1..Len(q) : r[i] = q[i]
  BY <1>1, <1>2 DEF Paths
<1> HIDE DEF r
<1>5. r = q
  BY <1>3, <1>4, SeqEqual DEF Paths
<1> QED
  BY <1>5 DEF r, s

--------------------------------------------------------------------------------
LEMMA EmptyIsTree ==
    IsTree(EmptyConfig) /\ DOMAIN EmptyConfig = {<<>>} /\ EmptyConfig[<<>>] = Obj
<1>1. DOMAIN EmptyConfig = {<<>>} /\ EmptyConfig[<<>>] = Obj
  BY DEF EmptyConfig, Scalar
<1>2. <<>> \in Paths
  BY DEF Paths
<1>3. \A p \in Prefixes(<<>>) : p = <<>>
  BY <1>2, PrefixesAre, PrefixEnds
<1> QED
  BY <1>1, <1>2, <1>3 DEF IsTree, Paths

\* What is below a path is all that a look at the path depends on.
LEMMA LookupSame ==
    ASSUME NEW tree, IsTree(tree), NEW other, NEW r \in Paths,
           Below(other, r) = Below(tree, r), \A q \in Below(tree, r) : other[q] = tree[q]
    PROVE  Lookup(other, r) = Lookup(tree, r) /\ (r \in DOMAIN other <=> r \in DOMAIN tree)
<1>1. IsPrefix(r, r)
  BY PrefixEnds
<1>2. r \in DOMAIN other <=> r \in DOMAIN tree
  BY <1>1 DEF Below
<1>3. CASE r \notin DOMAIN tree
  BY <1>2, <1>3 DEF Lookup
<1>4. CASE r \in DOMAIN tree
  <2> DEFINE S == {SubSeq(q, Len(r) + 1, Len(q)) : q \in Below(tree, r)}
  <2>1. \A x \in S : other[r \o x] = tree[r \o x]
    <3> SUFFICES ASSUME NEW q \in Below(tree, r)
                 PROVE  r \o SubSeq(q, Len(r) + 1, Len(q)) \in Below(tree, r)
      OBVIOUS
    <3>1. q \in Paths /\ IsPrefix(r, q)
      BY DEF Below, IsTree, Paths
    <3> QED
      BY <3>1, PrefixAndRest
  <2>2. Lookup(tree, r) = [x \in S |-> tree[r \o x]]
    BY <1>4 DEF Lookup
  <2>3. Lookup(other, r) = [x \in S |-> other[r \o x]]
    BY <1>2, <1>4 DEF Lookup
  <2> HIDE DEF S
  <2> QED
    BY <1>2, <2>1, <2>2, <2>3
<1> QED
  BY <1>3, <1>4

\* What is set or removed is not seen from a path that is neither above nor below it.
LEMMA SetElsewhere ==
    ASSUME NEW tree, IsTree(tree), NEW p \in Paths, NEW r \in Paths, NEW v,
           ~ IsPrefix(p, r), ~ IsPrefix(r, p)
    PROVE  /\ Lookup(SetNested(tree, p, v), r) = Lookup(tree, r)
           /\ r \in DOMAIN SetNested(tree, p, v) <=> r \in DOMAIN tree
<1> DEFINE other == SetNested(tree, p, v)
           New == (DOMAIN tree \ Below(tree, p)) \cup Prefixes(p)
<1>1. CASE \E q \in DOMAIN tree : IsStrictPrefix(q, p) /\ tree[q] # Obj
  BY <1>1 DEF SetNested
<1>2. CASE ~ \E q \in DOMAIN tree : IsStrictPrefix(q, p) /\ tree[q] # Obj
  <2>1. other = [q \in New |-> IF q = p THEN v ELSE IF q \in DOMAIN tree THEN tree[q] ELSE Obj]
    BY <1>2 DEF SetNested
  <2>2. DOMAIN other = New /\ \A q \in New : q # p /\ q \in DOMAIN tree => other[q] = tree[q]
    BY <2>1
  <2>3. ASSUME NEW q, IsPrefix(r, q)
        PROVE  q \in New <=> q \in DOMAIN tree
    <3>1. ASSUME q \in DOMAIN tree PROVE q \in New
      <4>1. q \in Paths
        BY <3>1 DEF IsTree, Paths
      <4>2. ~ IsPrefix(p, q)
        BY <2>3, <4>1, PrefixesCompare
      <4> QED
        BY <3>1, <4>2 DEF Below
    <3>2. ASSUME q \in Prefixes(p) PROVE FALSE
      <4>1. q \in Paths /\ IsPrefix(q, p)
        BY <3>2, PrefixesAre
      <4> QED
        BY <2>3, <4>1, PrefixTrans
    <3> QED
      BY <3>1, <3>2
  <2> HIDE DEF other, New
  <2>4. Below(other, r) = Below(tree, r)
    BY <2>2, <2>3 DEF Below
  <2>5. \A q \in Below(tree, r) : other[q] = tree[q]
    BY <2>2, <2>3 DEF Below
  <2> QED
    BY <2>4, <2>5, LookupSame DEF other
<1> QED
  BY <1>1, <1>2

LEMMA RemoveElsewhere ==
    ASSUME NEW tree, IsTree(tree), NEW p \in Paths, NEW r \in Paths,
           ~ IsPrefix(p, r), ~ IsPrefix(r, p)
    PROVE  /\ Lookup(RemoveKey(tree, p), r) = Lookup(tree, r)
           /\ r \in DOMAIN RemoveKey(tree, p) <=> r \in DOMAIN tree
<1> DEFINE other == RemoveKey(tree, p)
<1>1. DOMAIN other = DOMAIN tree \ Below(tree, p) /\ \A q \in DOMAIN other : other[q] = tree[q]
  BY DEF RemoveKey
<1>2. ASSUME NEW q \in Below(tree, r) PROVE q \in DOMAIN other
  <2>1. q \in Paths /\ IsPrefix(r, q) /\ q \in DOMAIN tree
    BY <1>2 DEF Below, IsTree, Paths
  <2>2. ~ IsPrefix(p, q)
    BY <2>1, PrefixesCompare
  <2> QED
    BY <1>1, <2>1, <2>2 DEF Below
<1> HIDE DEF other
<1>3. Below(other, r) = Below(tree, r)
  BY <1>1, <1>2 DEF Below
<1>4. \A q \in Below(tree, r) : other[q] = tree[q]
  BY <1>1, <1>2
<1> QED
  BY <1>3, <1>4, LookupSame DEF other

\* What a merge brings nothing for is still what it was, or has gone.
LEMMA MergeElsewhere ==
    ASSUME NEW tree, IsTree(tree), NEW source, IsTree(source), NEW r \in Paths,
           r \notin DOMAIN source, r \in DOMAIN DeepMerge(tree, source)
    PROVE  Lookup(DeepMerge(tree, source), r) = Lookup(tree, r) /\ r \in DOMAIN tree
<1> DEFINE other == DeepMerge(tree, source)
           Stays(q) == \A p \in DOMAIN source : IsPrefix(p, q) => source[p] = Obj
<1>1. /\ DOMAIN other = DOMAIN source \cup {q \in DOMAIN tree : Stays(q)}
      /\ \A q \in DOMAIN other : q \notin DOMAIN source => other[q] = tree[q]
  BY DEF DeepMerge
<1>2. Stays(r) /\ r \in DOMAIN tree
  BY <1>1
<1>3. ASSUME NEW q \in DOMAIN source, IsPrefix(r, q) PROVE FALSE
  <2>1. q \in Paths
    BY DEF IsTree, Paths
  <2>2. r \in Prefixes(q)
    BY <1>3, <2>1, PrefixesAre
  <2> QED
    BY <2>2 DEF IsTree
<1>4. ASSUME NEW q \in Below(tree, r) PROVE Stays(q)
  <2>1. q \in Paths /\ IsPrefix(r, q)
    BY <1>4 DEF Below, IsTree, Paths
  <2>2. ASSUME NEW p \in DOMAIN source, IsPrefix(p, q) PROVE source[p] = Obj
    <3>1. p \in Paths
      BY DEF IsTree, Paths
    <3>2. IsPrefix(p, r)
      BY <1>3, <2>1, <2>2, <3>1, PrefixesCompare
    <3> QED
      BY <1>2, <3>2
  <2> QED
    BY <2>2
<1> HIDE DEF other, Stays
<1>5. Below(other, r) = Below(tree, r)
  BY <1>1, <1>3, <1>4 DEF Below
<1>6. \A q \in Below(tree, r) : other[q] = tree[q]
  BY <1>1, <1>3, <1>5 DEF Below
<1> QED
  BY <1>2, <1>5, <1>6, LookupSame DEF other

--------------------------------------------------------------------------------
LEMMA SetIsTree ==
    ASSUME NEW tree, IsTree(tree), NEW p \in Paths, NEW v \in Scalars
    PROVE  IsTree(SetNested(tree, p, v))
<1> DEFINE other == SetNested(tree, p, v)
           New == (DOMAIN tree \ Below(tree, p)) \cup Prefixes(p)
<1>1. CASE \E q \in DOMAIN tree : IsStrictPrefix(q, p) /\ tree[q] # Obj
  BY <1>1 DEF SetNested
<1>2. CASE ~ \E q \in DOMAIN tree : IsStrictPrefix(q, p) /\ tree[q] # Obj
  <2>1. other = [q \in New |-> IF q = p THEN v ELSE IF q \in DOMAIN tree THEN tree[q] ELSE Obj]
    BY <1>2 DEF SetNested
  <2>2. /\ DOMAIN other = New
        /\ \A q \in New : other[q] = IF q = p THEN v ELSE IF q \in DOMAIN tree THEN tree[q] ELSE Obj
    BY <2>1
  <2>3. \A q \in DOMAIN tree : /\ q \in Paths /\ tree[q] \in Scalars \cup {Obj}
                              /\ \A x \in Prefixes(q) : x \in DOMAIN tree /\ (x # q => tree[x] = Obj)
    BY DEF IsTree, Paths
  <2>4. \A q \in New : q \in Paths
    BY <2>3, PrefixesAre
  <2>5. ASSUME NEW q \in New PROVE other[q] \in Scalars \cup {Obj}
    <3> HIDE DEF New, other
    <3> QED
      BY <2>2, <2>3, <2>5
  <2>6. ASSUME NEW q \in New, NEW x \in Prefixes(q)
        PROVE  x \in New /\ (x # q => other[x] = Obj)
    <3>1. q \in Paths /\ x \in Paths /\ IsPrefix(x, q)
      BY <2>4, PrefixesAre
    <3>2. CASE q \in Prefixes(p)
      <4>1. IsPrefix(q, p) /\ IsPrefix(x, p)
        BY <3>1, <3>2, PrefixesAre, PrefixTrans
      <4>2. x \in Prefixes(p)
        BY <3>1, <4>1, PrefixesAre
      <4>3. x # q => x # p
        BY <3>1, <4>1, PrefixBoth
      <4>4. x # p /\ x \in DOMAIN tree => tree[x] = Obj
        BY <1>2, <4>1 DEF IsStrictPrefix
      <4> HIDE DEF other
      <4> QED
        BY <2>2, <4>2, <4>3, <4>4
    <3>3. CASE q \in DOMAIN tree \ Below(tree, p)
      <4>1. x \in DOMAIN tree /\ (x # q => tree[x] = Obj)
        BY <2>3, <3>3
      <4>2. ~ IsPrefix(p, x)
        BY <3>1, <3>3, PrefixTrans DEF Below
      <4>3. x # p /\ x \in New
        BY <3>1, <4>1, <4>2, PrefixEnds DEF Below
      <4> HIDE DEF other, New
      <4> QED
        BY <2>2, <4>1, <4>3
    <3> QED
      BY <3>2, <3>3
  <2> HIDE DEF other, New
  <2>7. IsTree(other)
    BY <2>2, <2>4, <2>5, <2>6 DEF IsTree, Paths
  <2> QED
    BY <2>7 DEF other
<1> QED
  BY <1>1, <1>2

LEMMA RemoveIsTree ==
    ASSUME NEW tree, IsTree(tree), NEW p \in Paths
    PROVE  IsTree(RemoveKey(tree, p))
<1> DEFINE other == RemoveKey(tree, p)
<1>1. DOMAIN other = DOMAIN tree \ Below(tree, p) /\ \A q \in DOMAIN other : other[q] = tree[q]
  BY DEF RemoveKey
<1> HIDE DEF other
<1>2. ASSUME NEW q \in DOMAIN other, NEW x \in Prefixes(q) PROVE x \in DOMAIN other
  <2>1. q \in Paths /\ x \in Paths /\ IsPrefix(x, q) /\ x \in DOMAIN tree
    BY <1>1, PrefixesAre DEF IsTree, Paths
  <2>2. ~ IsPrefix(p, x)
    BY <1>1, <2>1, PrefixTrans DEF Below
  <2> QED
    BY <1>1, <2>1, <2>2 DEF Below
<1>3. IsTree(other)
  BY <1>1, <1>2 DEF IsTree
<1> QED
  BY <1>3 DEF other

LEMMA MergeIsTree ==
    ASSUME NEW tree, IsTree(tree), NEW source, IsTree(source)
    PROVE  IsTree(DeepMerge(tree, source))
<1> DEFINE other == DeepMerge(tree, source)
           Stays(q) == \A p \in DOMAIN source : IsPrefix(p, q) => source[p] = Obj
<1>1. /\ DOMAIN other = DOMAIN source \cup {q \in DOMAIN tree : Stays(q)}
      /\ \A q \in DOMAIN other : other[q] = IF q \in DOMAIN source THEN source[q] ELSE tree[q]
  BY DEF DeepMerge
<1> HIDE DEF other
<1>2. ASSUME NEW q \in DOMAIN other, NEW x \in Prefixes(q)
      PROVE  /\ q \in Paths /\ other[q] \in Scalars \cup {Obj}
             /\ x \in DOMAIN other /\ (x # q => other[x] = Obj)
  <2>1. CASE q \in DOMAIN source
    BY <1>1, <2>1 DEF IsTree, Paths
  <2>2. CASE q \notin DOMAIN source
    <3>1. q \in DOMAIN tree /\ Stays(q) /\ q \in Paths /\ tree[q] \in Scalars \cup {Obj}
          /\ x \in DOMAIN tree /\ (x # q => tree[x] = Obj)
      BY <1>1, <2>2 DEF IsTree, Paths
    <3>2. x \in Paths /\ IsPrefix(x, q)
      BY <3>1, PrefixesAre
    <3>3. Stays(x)
      <4>1. ASSUME NEW p \in DOMAIN source, IsPrefix(p, x) PROVE source[p] = Obj
        <5>1. p \in Paths
          BY DEF IsTree, Paths
        <5>2. IsPrefix(p, q)
          BY <3>1, <3>2, <4>1, <5>1, PrefixTrans
        <5> QED
          BY <3>1, <5>2
      <4> QED
        BY <4>1
    <3>4. x \in DOMAIN source => source[x] = Obj
      BY <3>1, <3>2
    <3> HIDE DEF Stays
    <3> QED
      BY <1>1, <2>2, <3>1, <3>3, <3>4
  <2> QED
    BY <2>1, <2>2
<1>3. ASSUME NEW q \in DOMAIN other PROVE q \in Paths /\ other[q] \in Scalars \cup {Obj}
  <2>1. q \in Paths
    BY <1>1 DEF IsTree, Paths
  <2>2. q \in Prefixes(q)
    BY <2>1, PrefixesAre, PrefixEnds
  <2> QED
    BY <1>2, <2>2
<1>4. IsTree(other)
  BY <1>2, <1>3 DEF IsTree, Paths
<1> QED
  BY <1>4 DEF other

--------------------------------------------------------------------------------
Trees == {tree \in UNION {[D -> Scalars \cup {Obj}] : D \in SUBSET Paths} : IsTree(tree)}

LEMMA FunctionIsTree ==
    ASSUME NEW D, NEW f, f = [q \in D |-> f[q]], IsTree(f)
    PROVE  f \in Trees
<1>1. DOMAIN f = D /\ D \in SUBSET Paths /\ \A q \in D : f[q] \in Scalars \cup {Obj}
  BY DEF IsTree, Paths
<1>2. f \in [D -> Scalars \cup {Obj}]
  BY <1>1
<1>3. f \in UNION {[E -> Scalars \cup {Obj}] : E \in SUBSET Paths}
  BY <1>1, <1>2
<1> QED
  BY <1>3 DEF Trees

LEMMA EmptyInTrees == EmptyConfig \in Trees
<1>1. EmptyConfig = [q \in {<<>>} |-> EmptyConfig[q]]
  BY DEF EmptyConfig, Scalar
<1> QED
  BY <1>1, EmptyIsTree, FunctionIsTree

LEMMA SetInTrees ==
    ASSUME NEW tree \in Trees, NEW p \in Paths, NEW v \in Scalars
    PROVE  SetNested(tree, p, v) \in Trees
<1>1. IsTree(tree) /\ IsTree(SetNested(tree, p, v))
  BY SetIsTree DEF Trees
<1>2. CASE SetNested(tree, p, v) = tree
  BY <1>2
<1>3. CASE SetNested(tree, p, v) # tree
  <2> DEFINE other == SetNested(tree, p, v)
             New == (DOMAIN tree \ Below(tree, p)) \cup Prefixes(p)
  <2>1. other = [q \in New |-> IF q = p THEN v ELSE IF q \in DOMAIN tree THEN tree[q] ELSE Obj]
    BY <1>3 DEF SetNested
  <2>2. other = [q \in New |-> other[q]]
    BY <2>1
  <2> HIDE DEF New, other
  <2>3. other \in Trees
    BY <1>1, <2>2, FunctionIsTree DEF other
  <2> QED
    BY <2>3 DEF other
<1> QED
  BY <1>2, <1>3

LEMMA MergeInTrees ==
    ASSUME NEW tree, IsTree(tree), NEW source, IsTree(source)
    PROVE  DeepMerge(tree, source) \in Trees
<1> DEFINE other == DeepMerge(tree, source)
<1>1. other = [q \in DOMAIN other |-> other[q]]
  BY DEF DeepMerge
<1>2. IsTree(other)
  BY MergeIsTree
<1> HIDE DEF other
<1>3. other \in Trees
  BY <1>1, <1>2, FunctionIsTree
<1> QED
  BY <1>3 DEF other

\* Whatever order the variables come in, what they make is a tree.
LEMMA EnvironmentIsTree ==
    ASSUME NEW env \in EnvTrees
    PROVE  IsTree(env)
<1>1. PICK order \in SetToSeqs(Variables) : env = EnvTree(order)
  BY DEF EnvTrees
<1> DEFINE n == Cardinality(Variables)
           g == [x \in Trees \X (1..n) |-> SetNested(x[1], EnvPath(order[x[2]][1]), order[x[2]][2])]
           Body(it) == [s \in SUBSET (DOMAIN order) |->
                           IF s = {} THEN EmptyConfig
                           ELSE SetNested(it[s \ {Max(s)}], EnvPath(order[Max(s)][1]), order[Max(s)][2])]
           F == CHOOSE it : it = Body(it)
<1>2. n \in Nat /\ order \in [1..n -> Variables] /\ DOMAIN order = 1..n
  BY <1>1, ConfigStoreAssumption, FS_CardinalityType DEF SetToSeqs, ConfigStoreAssumption
<1>3. env = F[DOMAIN order]
  BY <1>1 DEF EnvTree, FoldLeft, MapThenFoldSet
<1>4. ASSUME NEW i \in 1..n PROVE EnvPath(order[i][1]) \in Paths /\ order[i][2] \in Scalars
  BY <1>2, ConfigStoreAssumption DEF ConfigStoreAssumption, EnvPath, Keys, Paths
<1>5. g \in [Trees \X (1..n) -> Trees]
  BY <1>4, SetInTrees
<1>6. PICK it \in [SUBSET (1..n) -> Trees] : FoldOf(it, n, EmptyConfig, g)
  <2> HIDE DEF g, n
  <2> QED
    BY <1>2, <1>5, EmptyInTrees, FoldExists
<1>7. \A s \in SUBSET (1..n) : s # {} => Max(s) \in 1..n /\ s \ {Max(s)} \in SUBSET (1..n)
  <2> SUFFICES ASSUME NEW s \in SUBSET (1..n), s # {}
               PROVE  Max(s) \in s
    OBVIOUS
  <2>1. s \in SUBSET (0..n)
    BY <1>2
  <2> HIDE DEF n
  <2> QED
    BY <1>2, <2>1, Greatest
<1>8. it = Body(it)
  <2>1. \A s \in SUBSET (1..n) : it[s] = IF s = {} THEN EmptyConfig ELSE g[<<it[s \ {Max(s)}], Max(s)>>]
    BY <1>6 DEF FoldOf
  <2>2. ASSUME NEW s \in SUBSET (1..n), s # {}
        PROVE  g[<<it[s \ {Max(s)}], Max(s)>>]
               = SetNested(it[s \ {Max(s)}], EnvPath(order[Max(s)][1]), order[Max(s)][2])
    BY <1>6, <1>7, <2>2
  <2> HIDE DEF g
  <2> QED
    BY <1>2, <1>6, <2>1, <2>2
<1>9. F = Body(F)
  BY <1>8
<1>10. F[{}] = EmptyConfig
  BY <1>2, <1>9
<1>11. ASSUME NEW k \in 1..n
       PROVE  F[1..k] = SetNested(F[1..(k - 1)], EnvPath(order[k][1]), order[k][2])
  <2>1. 1..k \in SUBSET (1..n) /\ 1..k # {} /\ Max(1..k) = k /\ (1..k) \ {k} = 1..(k - 1)
    BY <1>2, Intervals
  <2>2. F[1..k] = Body(F)[1..k]
    BY <1>9
  <2>3. Body(F)[1..k] = SetNested(F[(1..k) \ {Max(1..k)}], EnvPath(order[Max(1..k)][1]), order[Max(1..k)][2])
    BY <1>2, <2>1
  <2> QED
    BY <2>1, <2>2, <2>3
<1>12. \A k \in 0..n : F[1..k] \in Trees
  <2> DEFINE S == {k \in 0..n : F[1..k] \in Trees}
  <2> HIDE DEF n, F
  <2>1. 0 \in S
    BY <1>2, <1>10, EmptyInTrees
  <2>2. ASSUME NEW k \in 0..(n - 1), k \in S PROVE k + 1 \in S
    <3>1. k + 1 \in 1..n /\ (k + 1) - 1 = k /\ k + 1 \in 0..n
      BY <1>2
    <3>2. F[1..(k + 1)] = SetNested(F[1..k], EnvPath(order[k + 1][1]), order[k + 1][2])
      BY <1>11, <3>1
    <3> QED
      BY <1>4, <2>2, <3>1, <3>2, SetInTrees
  <2> HIDE DEF S
  <2>3. \A k \in 0..n : k \in S
    BY <1>2, <2>1, <2>2, UpTo
  <2> QED
    BY <2>3 DEF S
<1> HIDE DEF n, F
<1>13. env \in Trees
  BY <1>2, <1>3, <1>12
<1> QED
  BY <1>13 DEF Trees

--------------------------------------------------------------------------------
StepSet ==
    [kind : {"file"}, file : ConfigFiles, source : Sources, optional : BOOLEAN]
    \cup [kind : {"text"}, text : Texts]
    \cup [kind : {"default"}, text : {x[1] : x \in LayerArgs}]
    \cup {EnvStep}

CallFields == {"place", "steps", "content", "old", "changed", "alone", "copied"}

\* What a task is doing: a change from above has every watcher looked at.
CallOK(c) ==
    /\ DOMAIN c = CallFields
    /\ c.place \in {"idle", "clear", "next", "validate", "merge", "notify", "record"}
    /\ c.steps \in Seq(StepSet)
    /\ IsTree(c.content) /\ IsTree(c.old) /\ c.changed \in Paths
    /\ c.alone \in BOOLEAN
    /\ c.copied \in Seq(ConfigFiles \X Sources)
    /\ c.place \in {"clear", "next", "validate", "merge"} => c.changed = <<>>
    /\ c.place \in {"validate", "merge", "record"} => c.steps # <<>>
    /\ c.place = "validate" => Head(c.steps).kind \in {"file", "text"}
    /\ c.place = "record" => Head(c.steps).kind = "file"

StoreTypes ==
    /\ IsTree(config)
    /\ sourcePaths \in Seq(ConfigFiles \X Sources) /\ savePath \in ConfigFiles \cup {Missing}
    /\ DOMAIN disk = ConfigFiles
    /\ \A f \in ConfigFiles : disk[f] \in {Missing, Garbled} \/ IsTree(disk[f])
    /\ watching \subseteq Watchers /\ hushed \subseteq watching /\ DOMAIN known = Watchers
    /\ validators \subseteq DOMAIN Refused /\ unchecked \subseteq validators
    /\ DOMAIN call = ConfigTasks /\ \A t \in ConfigTasks : CallOK(call[t])

LEMMA StepFields ==
    ASSUME NEW x \in StepSet
    PROVE  /\ x.kind \in {"file", "text", "default", "env"}
           /\ x.kind = "file" => x.file \in ConfigFiles /\ x.source \in Sources /\ x.optional \in BOOLEAN
           /\ x.kind = "text" => x.text \in Texts
           /\ x.kind = "default" => x.text \in {y[1] : y \in LayerArgs}
BY DEF StepSet, EnvStep

\* A sequence without its head.
LEMMA HeadAndTail ==
    ASSUME NEW X, NEW q \in Seq(X), q # <<>>
    PROVE  Head(q) \in X /\ Head(q) = q[1] /\ Tail(q) \in Seq(X) /\ Len(Tail(q)) = Len(q) - 1
           /\ Len(q) \in Nat \ {0} /\ \A i \in 1..Len(Tail(q)) : Tail(q)[i] = q[i + 1]
OBVIOUS

LEMMA NoCallOK ==
    /\ CallOK(NoCall)
    /\ NoCall.place = "idle" /\ NoCall.steps = <<>> /\ NoCall.content = EmptyConfig
    /\ NoCall.old = EmptyConfig /\ NoCall.changed = <<>> /\ NoCall.alone = TRUE /\ NoCall.copied = <<>>
BY EmptyIsTree DEF CallOK, NoCall, CallFields, Paths

\* A call that loads, as it begins.
LEMMA FreshOK ==
    ASSUME NEW steps \in Seq(StepSet), NEW c, c = [NoCall EXCEPT !.place = "next", !.steps = steps]
    PROVE  /\ CallOK(c) /\ c.place = "next" /\ c.steps = steps /\ c.copied = <<>>
           /\ c.changed = <<>> /\ c.alone = TRUE
BY NoCallOK DEF CallOK, CallFields

LEMMA DoneOK ==
    ASSUME NEW d, CallOK(d), d.steps # <<>>, NEW c, c = StepDone(d)
    PROVE  /\ CallOK(c) /\ c.place = "next" /\ c.steps = Tail(d.steps) /\ c.copied = d.copied
           /\ c.changed = <<>> /\ c.alone = d.alone /\ c.content = EmptyConfig
<1>1. Tail(d.steps) \in Seq(StepSet)
  BY HeadAndTail DEF CallOK
<1>2. d.copied \in Seq(ConfigFiles \X Sources) /\ d.alone \in BOOLEAN
  BY DEF CallOK
<1> QED
  BY <1>1, <1>2, NoCallOK DEF CallOK, CallFields, StepDone

Filled(d, place, tree) == [d EXCEPT !.place = place, !.content = tree]

LEMMA ContentOK ==
    ASSUME NEW d, CallOK(d), d.steps # <<>>, d.changed = <<>>, NEW tree, IsTree(tree),
           NEW place \in {"validate", "merge"},
           place = "validate" => Head(d.steps).kind \in {"file", "text"},
           NEW c, c = Filled(d, place, tree)
    PROVE  /\ CallOK(c) /\ c.place = place /\ c.steps = d.steps /\ c.copied = d.copied
           /\ c.changed = <<>> /\ c.alone = d.alone /\ c.content = tree
BY DEF CallOK, CallFields, Filled

Merged(d, tree) == [d EXCEPT !.place = "notify", !.content = EmptyConfig, !.old = tree]

LEMMA MergedOK ==
    ASSUME NEW d, CallOK(d), d.steps # <<>>, d.changed = <<>>, NEW tree, IsTree(tree),
           NEW c, c = Merged(d, tree)
    PROVE  /\ CallOK(c) /\ c.place = "notify" /\ c.steps = d.steps /\ c.copied = d.copied
           /\ c.changed = <<>> /\ c.alone = d.alone /\ c.old = tree
BY EmptyIsTree DEF CallOK, CallFields, Merged

Changed(p, tree) == [NoCall EXCEPT !.place = "notify", !.old = tree, !.changed = p]

LEMMA ChangedOK ==
    ASSUME NEW p \in Paths, NEW tree, IsTree(tree),
           NEW c, c = Changed(p, tree)
    PROVE  /\ CallOK(c) /\ c.place = "notify" /\ c.steps = <<>> /\ c.copied = <<>>
           /\ c.changed = p /\ c.old = tree
BY NoCallOK DEF CallOK, CallFields, Changed

LEMMA PlaceOK ==
    ASSUME NEW d, CallOK(d), NEW place \in {"next", "merge", "record"},
           place \in {"next", "merge"} => d.changed = <<>>,
           place \in {"merge", "record"} => d.steps # <<>>,
           place = "record" => Head(d.steps).kind = "file",
           NEW c, c = [d EXCEPT !.place = place]
    PROVE  /\ CallOK(c) /\ c.place = place /\ c.steps = d.steps /\ c.copied = d.copied
           /\ c.changed = d.changed /\ c.alone = d.alone /\ c.content = d.content /\ c.old = d.old
BY DEF CallOK, CallFields

LEMMA LonelyOK ==
    ASSUME NEW d, CallOK(d), NEW c, c = [d EXCEPT !.alone = FALSE]
    PROVE  /\ CallOK(c) /\ c.place = d.place /\ c.steps = d.steps /\ c.copied = d.copied
           /\ c.changed = d.changed /\ c.alone = FALSE /\ c.content = d.content /\ c.old = d.old
BY DEF CallOK, CallFields

--------------------------------------------------------------------------------
\* c goes on as d, if not alone any more.
SameCall(c, d) ==
    /\ c.place = d.place /\ c.steps = d.steps /\ c.content = d.content /\ c.old = d.old
    /\ c.changed = d.changed /\ c.copied = d.copied
    /\ d.alone \in {c.alone, FALSE}

\* t does c, and the others go on.
Becomes(t, c) ==
    /\ DOMAIN call' = ConfigTasks /\ \A u \in ConfigTasks : CallOK(call'[u])
    /\ call'[t] = c
    /\ \A u \in ConfigTasks : u # t => SameCall(call[u], call'[u])

LEMMA CallGoesOn ==
    ASSUME StoreTypes, NEW t \in ConfigTasks, NEW c, CallOK(c), call' = [call EXCEPT ![t] = c]
    PROVE  Becomes(t, c) /\ \A u \in ConfigTasks : u # t => call'[u] = call[u]
BY DEF Becomes, SameCall, StoreTypes, CallOK

LEMMA CallMeddles ==
    ASSUME StoreTypes, NEW t \in ConfigTasks, NEW c, CallOK(c), Meddles(t, c)
    PROVE  Becomes(t, c) /\ \A u \in ConfigTasks : u # t => call'[u].alone = FALSE
<1>1. DOMAIN call' = ConfigTasks /\ call'[t] = c
      /\ \A u \in ConfigTasks : u # t => call'[u] = [call[u] EXCEPT !.alone = FALSE]
  BY DEF Meddles
<1>2. \A u \in ConfigTasks : CallOK(call[u])
  BY DEF StoreTypes
<1>3. \A u \in ConfigTasks : u # t => CallOK(call'[u]) /\ call'[u].alone = FALSE /\ SameCall(call[u], call'[u])
  <2> SUFFICES ASSUME NEW u \in ConfigTasks, u # t
               PROVE  CallOK(call'[u]) /\ call'[u].alone = FALSE /\ SameCall(call[u], call'[u])
    OBVIOUS
  <2>1. CallOK(call[u]) /\ call'[u] = [call[u] EXCEPT !.alone = FALSE]
    BY <1>1, <1>2
  <2> QED
    BY <2>1, LonelyOK DEF SameCall
<1> QED
  BY <1>1, <1>3 DEF Becomes

LEMMA SomeSteps ==
    ASSUME NEW S, NEW a \in S, NEW b \in S, NEW c \in S, NEW d \in S
    PROVE  <<a>> \in Seq(S) /\ Len(<<a>>) = 1 /\ <<a>>[1] = a /\ <<a, b, c, d>> \in Seq(S)
OBVIOUS

LEMMA FileStepIn ==
    ASSUME NEW f \in ConfigFiles, NEW source \in Sources, NEW optional \in BOOLEAN
    PROVE  FileStep(f, source, optional) \in StepSet
BY DEF FileStep, StepSet

LEMMA OneAfter ==
    ASSUME NEW S, NEW q \in Seq(S), NEW e \in Seq(S), Len(e) = 1
    PROVE  /\ q \o e \in Seq(S) /\ Len(q \o e) = Len(q) + 1
           /\ \A i \in 1..Len(q) : (q \o e)[i] = q[i]
           /\ (q \o e)[Len(q) + 1] = e[1]
<1>1. /\ q \o e \in Seq(S) /\ Len(q \o e) = Len(q) + Len(e)
      /\ \A i \in 1..(Len(q) + Len(e)) :
            (q \o e)[i] = IF i <= Len(q) THEN q[i] ELSE e[i - Len(q)]
  BY ConcatProperties
<1> DEFINE n == Len(q)
           r == q \o e
<1>2. n \in Nat
  OBVIOUS
<1> HIDE DEF r, n
<1>3. \A i \in 1..(n + 1) : r[i] = IF i <= n THEN q[i] ELSE e[i - n]
  BY <1>1 DEF r, n
<1>4. (\A i \in 1..n : r[i] = q[i]) /\ r[n + 1] = e[1]
  BY <1>2, <1>3
<1> QED
  BY <1>1, <1>4 DEF r, n

\* A list of files, as steps.
LEMMA FileStepsIn ==
    ASSUME NEW xs, NEW n \in Nat, DOMAIN xs = 1..n,
           NEW steps, steps = [i \in DOMAIN xs |-> steps[i]],
           \A i \in DOMAIN xs : steps[i] \in StepSet
    PROVE  steps \in Seq(StepSet) /\ Len(steps) = n
<1>1. steps \in [1..n -> StepSet]
  OBVIOUS
<1> QED
  BY <1>1

Elsewhere == UNCHANGED <<config, fileVars, watchVars, checkVars>>

LEMMA LoadsTyped ==
    ASSUME StoreTypes, NEW t \in ConfigTasks, NEW steps \in Seq(StepSet), Loads(t, steps)
    PROVE  /\ Becomes(t, call'[t]) /\ \A u \in ConfigTasks : u # t => call'[u] = call[u]
           /\ call[t].place = "idle" /\ call'[t].place = "next" /\ call'[t].copied = <<>>
           /\ Elsewhere
<1> DEFINE c == [NoCall EXCEPT !.place = "next", !.steps = steps]
<1>1. CallOK(c) /\ c.place = "next" /\ c.copied = <<>>
  BY FreshOK
<1>2. call' = [call EXCEPT ![t] = c] /\ call[t].place = "idle" /\ Elsewhere
  BY DEF Loads, Calls, Elsewhere
<1> HIDE DEF c
<1>3. Becomes(t, c) /\ \A u \in ConfigTasks : u # t => call'[u] = call[u]
  BY <1>1, <1>2, CallGoesOn
<1>4. call'[t] = c
  BY <1>3 DEF Becomes
<1> QED
  BY <1>1, <1>2, <1>3, <1>4

LoadCall(t) ==
    \/ LoadFromFile(t) \/ LoadFromPaths(t) \/ LoadFromStr(t) \/ LoadFromEnvironment(t)
    \/ LoadLayered(t)

LEMMA LoadTyped ==
    ASSUME StoreTypes, NEW t \in ConfigTasks, LoadCall(t)
    PROVE  /\ Becomes(t, call'[t]) /\ \A u \in ConfigTasks : u # t => call'[u] = call[u]
           /\ call[t].place = "idle" /\ call'[t].place = "next" /\ call'[t].copied = <<>>
           /\ Elsewhere
<1>1. EnvStep \in StepSet
  BY DEF StepSet
<1>2. CASE LoadFromFile(t)
  <2>1. PICK x \in SourceArgs : Loads(t, <<FileStep(x[1], x[2], FALSE)>>)
    BY <1>2 DEF LoadFromFile
  <2>2. x[1] \in ConfigFiles /\ x[2] \in Sources
    BY ConfigStoreAssumption DEF ConfigStoreAssumption
  <2>3. FileStep(x[1], x[2], FALSE) \in StepSet
    BY <2>2, FileStepIn
  <2>4. <<FileStep(x[1], x[2], FALSE)>> \in Seq(StepSet)
    BY <2>3, SomeSteps
  <2> QED
    BY <2>1, <2>4, LoadsTyped
<1>3. CASE LoadFromPaths(t)
  <2>1. PICK fs \in PathArgs : Loads(t, [i \in DOMAIN fs |-> FileStep(fs[i], "User", TRUE)])
    BY <1>3 DEF LoadFromPaths
  <2> DEFINE steps == [i \in DOMAIN fs |-> FileStep(fs[i], "User", TRUE)]
  <2>2. fs \in Seq(ConfigFiles)
    BY ConfigStoreAssumption DEF ConfigStoreAssumption
  <2>3. DOMAIN fs = 1..Len(fs) /\ Len(fs) \in Nat /\ \A i \in DOMAIN fs : fs[i] \in ConfigFiles
    BY <2>2
  <2>4. "User" \in Sources
    BY DEF Sources
  <2>5. \A i \in DOMAIN fs : steps[i] \in StepSet
    BY <2>3, <2>4, FileStepIn
  <2>6. steps = [i \in DOMAIN fs |-> steps[i]]
    OBVIOUS
  <2> HIDE DEF steps
  <2>7. steps \in Seq(StepSet)
    BY <2>3, <2>5, <2>6, FileStepsIn
  <2> QED
    BY <2>1, <2>7, LoadsTyped DEF steps
<1>4. CASE LoadFromStr(t)
  <2>1. PICK x \in Texts : Loads(t, <<TextStep(x)>>)
    BY <1>4 DEF LoadFromStr
  <2>2. TextStep(x) \in StepSet
    BY DEF TextStep, StepSet
  <2>3. <<TextStep(x)>> \in Seq(StepSet)
    BY <2>2, SomeSteps
  <2> QED
    BY <2>1, <2>3, LoadsTyped
<1>5. CASE LoadFromEnvironment(t)
  <2>1. <<EnvStep>> \in Seq(StepSet)
    BY <1>1, SomeSteps
  <2> QED
    BY <1>5, <2>1, LoadsTyped DEF LoadFromEnvironment
<1>6. CASE LoadLayered(t)
  <2>1. PICK x \in LayerArgs :
          Loads(t, <<DefaultStep(x[1]), FileStep(x[2], "System", TRUE),
                     FileStep(x[3], "User", TRUE), EnvStep>>)
    BY <1>6 DEF LoadLayered
  <2>2. x[2] \in ConfigFiles /\ x[3] \in ConfigFiles
    BY ConfigStoreAssumption DEF ConfigStoreAssumption
  <2>3. "System" \in Sources /\ "User" \in Sources /\ DefaultStep(x[1]) \in StepSet
    BY DEF Sources, DefaultStep, StepSet
  <2>4. FileStep(x[2], "System", TRUE) \in StepSet /\ FileStep(x[3], "User", TRUE) \in StepSet
    BY <2>2, <2>3, FileStepIn
  <2>5. <<DefaultStep(x[1]), FileStep(x[2], "System", TRUE), FileStep(x[3], "User", TRUE), EnvStep>>
        \in Seq(StepSet)
    BY <1>1, <2>3, <2>4, SomeSteps
  <2> QED
    BY <2>1, <2>5, LoadsTyped
<1> QED
  BY <1>2, <1>3, <1>4, <1>5, <1>6 DEF LoadCall

ReloadSteps(xs) == [i \in DOMAIN xs |-> FileStep(xs[i][1], xs[i][2], TRUE)] \o <<EnvStep>>

LEMMA ReloadStepsAre ==
    ASSUME NEW xs \in Seq(ConfigFiles \X Sources)
    PROVE  /\ ReloadSteps(xs) \in Seq(StepSet) /\ Len(ReloadSteps(xs)) = Len(xs) + 1
           /\ \A i \in 1..Len(xs) : ReloadSteps(xs)[i] = FileStep(xs[i][1], xs[i][2], TRUE)
           /\ ReloadSteps(xs)[Len(xs) + 1] = EnvStep
           /\ Len(xs) \in Nat
<1> DEFINE q == [i \in DOMAIN xs |-> FileStep(xs[i][1], xs[i][2], TRUE)]
<1>1. DOMAIN xs = 1..Len(xs) /\ Len(xs) \in Nat
      /\ \A i \in DOMAIN xs : xs[i][1] \in ConfigFiles /\ xs[i][2] \in Sources
  OBVIOUS
<1>2. EnvStep \in StepSet
  BY DEF StepSet
<1>3. (\A i \in DOMAIN xs : q[i] \in StepSet) /\ q = [i \in DOMAIN xs |-> q[i]]
      /\ \A i \in 1..Len(xs) : q[i] = FileStep(xs[i][1], xs[i][2], TRUE)
  BY <1>1, FileStepIn
<1> HIDE DEF q
<1>4. q \in Seq(StepSet) /\ Len(q) = Len(xs)
  BY <1>1, <1>3, FileStepsIn
<1> DEFINE e == <<EnvStep>>
<1>5. e \in Seq(StepSet) /\ Len(e) = 1 /\ e[1] = EnvStep
  BY <1>2, SomeSteps
<1>6. ReloadSteps(xs) = q \o e
  BY DEF ReloadSteps, q
<1> HIDE DEF e
<1>7. /\ q \o e \in Seq(StepSet) /\ Len(q \o e) = Len(xs) + 1
      /\ \A i \in 1..Len(xs) : (q \o e)[i] = q[i]
      /\ (q \o e)[Len(xs) + 1] = EnvStep
  <2>1. /\ q \o e \in Seq(StepSet) /\ Len(q \o e) = Len(q) + 1
        /\ \A i \in 1..Len(q) : (q \o e)[i] = q[i]
        /\ (q \o e)[Len(q) + 1] = e[1]
    BY <1>4, <1>5, OneAfter
  <2> QED
    BY ONLY <1>4, <1>5, <2>1
<1> QED
  BY <1>1, <1>3, <1>6, <1>7

LEMMA ReloadTyped ==
    ASSUME StoreTypes, NEW t \in ConfigTasks, Reload(t)
    PROVE  /\ Becomes(t, call'[t]) /\ \A u \in ConfigTasks : u # t => call'[u] = call[u]
           /\ call[t].place = "idle" /\ call'[t].place = "clear" /\ call'[t].copied = sourcePaths
           /\ call'[t].steps = ReloadSteps(sourcePaths)
           /\ Elsewhere
<1> DEFINE steps == ReloadSteps(sourcePaths)
           c == [NoCall EXCEPT !.place = "clear", !.copied = sourcePaths, !.steps = steps]
<1>1. steps \in Seq(StepSet) /\ sourcePaths \in Seq(ConfigFiles \X Sources)
  BY ReloadStepsAre DEF StoreTypes
<1>2. call' = [call EXCEPT ![t] = c] /\ call[t].place = "idle" /\ Elsewhere
  BY DEF Reload, Calls, Elsewhere, ReloadSteps
<1> HIDE DEF steps
<1>3. CallOK(c) /\ c.place = "clear" /\ c.copied = sourcePaths /\ c.steps = steps
  BY <1>1, NoCallOK DEF CallOK, CallFields
<1> HIDE DEF c
<1>4. Becomes(t, c) /\ \A u \in ConfigTasks : u # t => call'[u] = call[u]
  BY <1>2, <1>3, CallGoesOn
<1>5. call'[t] = c
  BY <1>4 DEF Becomes
<1> QED
  BY <1>2, <1>3, <1>4, <1>5 DEF steps

--------------------------------------------------------------------------------
LEMMA MovesTyped ==
    ASSUME StoreTypes, NEW t \in ConfigTasks, NEW c, CallOK(c), Moves(t, c)
    PROVE  /\ Becomes(t, c) /\ call'[t] = c /\ \A u \in ConfigTasks : u # t => call'[u] = call[u]
           /\ Elsewhere
<1>1. call' = [call EXCEPT ![t] = c] /\ Elsewhere
  BY DEF Moves, Elsewhere
<1>2. Becomes(t, c) /\ \A u \in ConfigTasks : u # t => call'[u] = call[u]
  BY <1>1, CallGoesOn
<1> QED
  BY <1>1, <1>2 DEF Becomes

\* The task of a step, which is the first of what is left.
LEMMA StepTyped ==
    ASSUME StoreTypes, NEW t \in ConfigTasks, NEW kind, HasStep(t, kind)
    PROVE  /\ CallOK(call[t]) /\ call[t].place = "next" /\ call[t].steps # <<>>
           /\ call[t].changed = <<>> /\ Step(t) = Head(call[t].steps) /\ Step(t) \in StepSet
           /\ Step(t).kind = kind
<1>1. CallOK(call[t]) /\ call[t].place = "next" /\ call[t].steps # <<>> /\ Step(t).kind = kind
  BY DEF StoreTypes, HasStep
<1>2. call[t].changed = <<>> /\ call[t].steps \in Seq(StepSet)
  BY <1>1 DEF CallOK
<1> QED
  BY <1>1, <1>2, HeadAndTail DEF Step

\* Reading, whatever is read: the call fails, is done with the step, or has the content.
ReadStep(t) == ReadFile(t) \/ ReadText(t) \/ ReadDefault(t) \/ ReadEnvironment(t)

\* There is nothing to read.
Skips(t) ==
    \/ Step(t).kind = "file" /\ disk[Step(t).file] = Missing
    \/ Step(t).kind = "env" /\ EmptyConfig \in EnvTrees

ReadsTo(t, c) ==
    \/ c = NoCall
    \/ c = StepDone(call[t]) /\ Skips(t)
    \/ /\ c.place = "validate" /\ Step(t).kind \in {"file", "text"}
       /\ Step(t).kind = "file" => c.content # Missing
       /\ c.content = IF Step(t).kind = "file" THEN disk[Step(t).file] ELSE Step(t).text
       /\ c.steps = call[t].steps /\ c.copied = call[t].copied /\ c.alone = call[t].alone
    \/ /\ c.place = "merge" /\ Step(t).kind \in {"default", "env"}
       /\ Step(t).kind = "env" => c.content \in EnvTrees \ {EmptyConfig}
       /\ c.steps = call[t].steps /\ c.copied = call[t].copied /\ c.alone = call[t].alone

LEMMA ReadTyped ==
    ASSUME StoreTypes, NEW t \in ConfigTasks, ReadStep(t)
    PROVE  /\ Becomes(t, call'[t]) /\ \A u \in ConfigTasks : u # t => call'[u] = call[u]
           /\ call[t].place = "next" /\ ReadsTo(t, call'[t])
           /\ Elsewhere
<1>1. \E kind : HasStep(t, kind)
  BY DEF ReadStep, ReadFile, ReadText, ReadDefault, ReadEnvironment
<1>2. CallOK(call[t]) /\ call[t].place = "next" /\ call[t].steps # <<>>
      /\ call[t].changed = <<>> /\ Step(t) = Head(call[t].steps) /\ Step(t) \in StepSet
  BY <1>1, StepTyped
<1>3. ASSUME NEW c, CallOK(c), Moves(t, c), ReadsTo(t, c)
      PROVE  /\ Becomes(t, call'[t]) /\ \A u \in ConfigTasks : u # t => call'[u] = call[u]
             /\ ReadsTo(t, call'[t]) /\ Elsewhere
  <2>1. /\ Becomes(t, c) /\ call'[t] = c /\ \A u \in ConfigTasks : u # t => call'[u] = call[u]
        /\ Elsewhere
    BY <1>3, MovesTyped
  <2> QED
    BY <1>3, <2>1
<1>4. ASSUME Fails(t)
      PROVE  /\ Becomes(t, call'[t]) /\ \A u \in ConfigTasks : u # t => call'[u] = call[u]
             /\ ReadsTo(t, call'[t]) /\ Elsewhere
  <2>1. Moves(t, NoCall) /\ CallOK(NoCall) /\ ReadsTo(t, NoCall)
    BY <1>4, NoCallOK DEF Fails, ReadsTo
  <2> QED
    BY <1>3, <2>1
<1>5. ASSUME Moves(t, StepDone(call[t])), Skips(t)
      PROVE  /\ Becomes(t, call'[t]) /\ \A u \in ConfigTasks : u # t => call'[u] = call[u]
             /\ ReadsTo(t, call'[t]) /\ Elsewhere
  <2>1. CallOK(StepDone(call[t])) /\ ReadsTo(t, StepDone(call[t]))
    BY <1>2, <1>5, DoneOK DEF ReadsTo
  <2> QED
    BY <1>3, <1>5, <2>1
<1>6. ASSUME NEW tree, IsTree(tree), NEW place \in {"validate", "merge"},
             Step(t).kind \in IF place = "validate" THEN {"file", "text"} ELSE {"default", "env"},
             place = "validate" =>
                tree = IF Step(t).kind = "file" THEN disk[Step(t).file] ELSE Step(t).text,
             Step(t).kind = "file" => tree # Missing,
             Step(t).kind = "env" => tree \in EnvTrees \ {EmptyConfig},
             Moves(t, [call[t] EXCEPT !.place = place, !.content = tree])
      PROVE  /\ Becomes(t, call'[t]) /\ \A u \in ConfigTasks : u # t => call'[u] = call[u]
             /\ ReadsTo(t, call'[t]) /\ Elsewhere
  <2> DEFINE c == Filled(call[t], place, tree)
  <2>1. place = "validate" => Head(call[t].steps).kind \in {"file", "text"}
    BY <1>2, <1>6
  <2>2. /\ CallOK(c) /\ c.place = place /\ c.steps = call[t].steps /\ c.copied = call[t].copied
        /\ c.changed = <<>> /\ c.alone = call[t].alone /\ c.content = tree
    <3>1. /\ CallOK(call[t]) /\ call[t].steps # <<>> /\ call[t].changed = <<>> /\ IsTree(tree)
      BY <1>2, <1>6
    <3> QED
      BY <1>6, <2>1, <3>1, ContentOK
  <2>3. Moves(t, c)
    BY <1>6 DEF Filled
  <2> HIDE DEF c
  <2>4. ReadsTo(t, c)
    BY <1>6, <2>2 DEF ReadsTo
  <2> QED
    BY <1>3, <2>2, <2>3, <2>4
<1>7. CASE ReadFile(t)
  <2>1. Step(t).kind = "file" /\ Step(t).file \in ConfigFiles
    BY <1>2, <1>7, StepFields DEF ReadFile, HasStep
  <2>2. disk[Step(t).file] \in {Missing, Garbled} \/ IsTree(disk[Step(t).file])
    BY <2>1 DEF StoreTypes
  <2>3. \/ disk[Step(t).file] = Missing /\ Moves(t, StepDone(call[t]))
        \/ Fails(t)
        \/ /\ disk[Step(t).file] \notin {Missing, Garbled}
           /\ Moves(t, [call[t] EXCEPT !.place = "validate", !.content = disk[Step(t).file]])
    BY <1>7 DEF ReadFile
  <2> QED
    BY <1>2, <1>4, <1>5, <1>6, <2>1, <2>2, <2>3 DEF Skips
<1>8. CASE ReadText(t)
  <2>1. Step(t).kind = "text" /\ Step(t).text \in Texts
    BY <1>2, <1>8, StepFields DEF ReadText, HasStep
  <2>2. Step(t).text = Garbled \/ IsTree(Step(t).text)
    BY <2>1, ConfigStoreAssumption DEF ConfigStoreAssumption
  <2>3. \/ Fails(t)
        \/ /\ Step(t).text # Garbled
           /\ Moves(t, [call[t] EXCEPT !.place = "validate", !.content = Step(t).text])
    BY <1>8 DEF ReadText
  <2> QED
    BY <1>2, <1>4, <1>6, <2>1, <2>2, <2>3
<1>9. CASE ReadDefault(t)
  <2>1. Step(t).kind = "default" /\ Step(t).text \in {x[1] : x \in LayerArgs}
    BY <1>2, <1>9, StepFields DEF ReadDefault, HasStep
  <2>2. IsTree(Step(t).text)
    BY <2>1, ConfigStoreAssumption DEF ConfigStoreAssumption
  <2>3. Moves(t, [call[t] EXCEPT !.place = "merge", !.content = Step(t).text])
    BY <1>9 DEF ReadDefault
  <2> QED
    BY <1>2, <1>6, <2>1, <2>2, <2>3
<1>10. CASE ReadEnvironment(t)
  <2>1. Step(t).kind = "env"
    BY <1>10 DEF ReadEnvironment, HasStep
  <2>2. PICK env \in EnvTrees :
          IF env = EmptyConfig THEN Moves(t, StepDone(call[t]))
          ELSE Moves(t, [call[t] EXCEPT !.place = "merge", !.content = env])
    BY <1>10 DEF ReadEnvironment
  <2>3. IsTree(env)
    BY EnvironmentIsTree
  <2>4. env = EmptyConfig => Skips(t)
    BY <2>1 DEF Skips
  <2> QED
    BY <1>2, <1>5, <1>6, <2>1, <2>2, <2>3, <2>4
<1> QED
  BY <1>2, <1>7, <1>8, <1>9, <1>10 DEF ReadStep

LEMMA ValidateTyped ==
    ASSUME StoreTypes, NEW t \in ConfigTasks, Validate(t)
    PROVE  /\ Becomes(t, call'[t]) /\ \A u \in ConfigTasks : u # t => call'[u] = call[u]
           /\ call[t].place = "validate"
           /\ \/ call'[t] = NoCall
              \/ /\ \A p \in validators : ~ Rejected(p, call[t].content)
                 /\ call'[t] = [call[t] EXCEPT !.place = "merge"]
                 /\ call'[t].place = "merge" /\ call'[t].content = call[t].content
                 /\ call'[t].steps = call[t].steps /\ call'[t].copied = call[t].copied
                 /\ call'[t].alone = call[t].alone
           /\ Elsewhere
<1>1. CallOK(call[t]) /\ call[t].place = "validate"
  BY DEF StoreTypes, Validate
<1>2. call[t].steps # <<>> /\ call[t].changed = <<>>
  BY <1>1 DEF CallOK
<1>3. CASE Fails(t)
  BY <1>1, <1>3, NoCallOK, MovesTyped DEF Fails
<1>4. CASE /\ \A p \in validators : ~ Rejected(p, call[t].content)
           /\ Moves(t, [call[t] EXCEPT !.place = "merge"])
  <2> DEFINE c == [call[t] EXCEPT !.place = "merge"]
  <2>1. /\ CallOK(c) /\ c.place = "merge" /\ c.steps = call[t].steps /\ c.copied = call[t].copied
        /\ c.alone = call[t].alone /\ c.content = call[t].content
    BY <1>1, <1>2, PlaceOK
  <2>2. Moves(t, c)
    BY <1>4
  <2>3. /\ Becomes(t, c) /\ call'[t] = c /\ \A u \in ConfigTasks : u # t => call'[u] = call[u]
        /\ Elsewhere
    <3> HIDE DEF c
    <3> QED
      BY <2>1, <2>2, MovesTyped
  <2>4. call'[t] = [call[t] EXCEPT !.place = "merge"]
    BY <2>3
  <2> HIDE DEF c
  <2> QED
    BY <1>1, <1>4, <2>1, <2>3, <2>4
<1> QED
  BY <1>3, <1>4 DEF Validate

LEMMA ReturnTyped ==
    ASSUME StoreTypes, NEW t \in ConfigTasks, Return(t)
    PROVE  /\ Becomes(t, call'[t]) /\ \A u \in ConfigTasks : u # t => call'[u] = call[u]
           /\ call[t].place = "next" /\ call'[t] = NoCall /\ Elsewhere
BY NoCallOK, MovesTyped DEF Return

OthersMeddledWith(t) == \A u \in ConfigTasks : u # t => call'[u].alone = FALSE

LEMMA MeddlesTyped ==
    ASSUME StoreTypes, NEW t \in ConfigTasks, NEW c, CallOK(c), Meddles(t, c)
    PROVE  Becomes(t, c) /\ call'[t] = c /\ OthersMeddledWith(t)
BY CallMeddles DEF Becomes, OthersMeddledWith

LEMMA ClearTyped ==
    ASSUME StoreTypes, NEW t \in ConfigTasks, Clear(t)
    PROVE  /\ Becomes(t, call'[t]) /\ OthersMeddledWith(t)
           /\ call[t].place = "clear" /\ call'[t].place = "next"
           /\ call'[t].steps = call[t].steps /\ call'[t].copied = call[t].copied
           /\ call'[t].alone = call[t].alone
           /\ config' = EmptyConfig
           /\ hushed' = hushed \cup {w \in watching : Lookup(config, WatchOf[w]) #
                                                      Lookup(EmptyConfig, WatchOf[w])}
           /\ UNCHANGED <<fileVars, watching, known, checkVars>>
<1> DEFINE c == [call[t] EXCEPT !.place = "next"]
<1>1. CallOK(call[t]) /\ call[t].place = "clear"
  BY DEF StoreTypes, Clear
<1>2. call[t].changed = <<>>
  BY <1>1 DEF CallOK
<1>3. /\ CallOK(c) /\ c.place = "next" /\ c.steps = call[t].steps /\ c.copied = call[t].copied
      /\ c.alone = call[t].alone
  BY <1>1, <1>2, PlaceOK
<1>4. Meddles(t, c)
  BY DEF Clear
<1> HIDE DEF c
<1>5. Becomes(t, c) /\ call'[t] = c /\ OthersMeddledWith(t)
  BY <1>3, <1>4, MeddlesTyped
<1> QED
  BY <1>1, <1>3, <1>5 DEF Clear

LEMMA MergeTyped ==
    ASSUME StoreTypes, NEW t \in ConfigTasks, MergeConfig(t)
    PROVE  /\ Becomes(t, call'[t]) /\ OthersMeddledWith(t)
           /\ call[t].place = "merge" /\ call'[t].place = "notify" /\ IsTree(call[t].content)
           /\ call'[t].changed = <<>> /\ call'[t].old = config
           /\ call'[t].steps = call[t].steps /\ call'[t].copied = call[t].copied
           /\ call'[t].alone = call[t].alone
           /\ config' = DeepMerge(config, call[t].content) /\ IsTree(config')
           /\ unchecked' = unchecked \cup {p \in validators : PastValidator(t, p)}
           /\ UNCHANGED <<fileVars, watchVars, validators>>
<1> DEFINE c == Merged(call[t], config)
<1>1. CallOK(call[t]) /\ call[t].place = "merge" /\ IsTree(config)
  BY DEF StoreTypes, MergeConfig
<1>2. call[t].changed = <<>> /\ call[t].steps # <<>> /\ IsTree(call[t].content)
  BY <1>1 DEF CallOK
<1>3. /\ CallOK(c) /\ c.place = "notify" /\ c.steps = call[t].steps /\ c.copied = call[t].copied
      /\ c.changed = <<>> /\ c.alone = call[t].alone /\ c.old = config
  BY <1>1, <1>2, MergedOK
<1>4. Meddles(t, c)
  BY DEF MergeConfig, Merged
<1> HIDE DEF c
<1>5. Becomes(t, c) /\ call'[t] = c /\ OthersMeddledWith(t)
  BY <1>3, <1>4, MeddlesTyped
<1>6. config' = DeepMerge(config, call[t].content)
  BY DEF MergeConfig
<1>7. IsTree(config')
  BY <1>1, <1>2, <1>6, MergeIsTree
<1>8. /\ unchecked' = unchecked \cup {p \in validators : PastValidator(t, p)}
      /\ UNCHANGED <<fileVars, watchVars, validators>>
  BY DEF MergeConfig
<1> QED
  BY <1>1, <1>2, <1>3, <1>5, <1>6, <1>7, <1>8

LEMMA ChangesTyped ==
    ASSUME StoreTypes, NEW t \in ConfigTasks, NEW p \in Keys, NEW tree, IsTree(tree),
           Changes(t, p, tree)
    PROVE  /\ Becomes(t, call'[t]) /\ OthersMeddledWith(t)
           /\ call[t].place = "idle" /\ call'[t].place = "notify"
           /\ call'[t].changed = p /\ call'[t].old = config
           /\ call'[t].steps = <<>> /\ call'[t].copied = <<>>
           /\ config' = tree /\ unchecked' = unchecked \cup Reached(p)
           /\ UNCHANGED <<fileVars, watchVars, validators>>
<1> DEFINE c == Changed(p, config)
<1>1. call[t].place = "idle" /\ IsTree(config) /\ p \in Paths
  BY DEF StoreTypes, Changes, Keys, Paths
<1>2. /\ CallOK(c) /\ c.place = "notify" /\ c.steps = <<>> /\ c.copied = <<>>
      /\ c.changed = p /\ c.old = config
  BY <1>1, ChangedOK
<1>3. Meddles(t, c)
  BY DEF Changes, Changed
<1> HIDE DEF c
<1>4. Becomes(t, c) /\ call'[t] = c /\ OthersMeddledWith(t)
  BY <1>2, <1>3, MeddlesTyped
<1> QED
  BY <1>1, <1>2, <1>4 DEF Changes

\* What set() and remove() make of the configuration is a tree, and is seen from nowhere else.
LEMMA SetTyped ==
    ASSUME StoreTypes, NEW t \in ConfigTasks, SetValue(t) \/ RemoveValue(t)
    PROVE  \E p \in Keys : \E tree :
              /\ Changes(t, p, tree) /\ IsTree(tree)
              /\ \A r \in Paths : ~ IsPrefix(p, r) /\ ~ IsPrefix(r, p) =>
                    /\ Lookup(tree, r) = Lookup(config, r)
                    /\ r \in DOMAIN tree <=> r \in DOMAIN config
<1>1. IsTree(config) /\ Keys \subseteq Paths
  BY DEF StoreTypes, Keys, Paths
<1>2. CASE SetValue(t)
  <2>1. PICK x \in Settings : Changes(t, x[1], SetNested(config, x[1], x[2]))
    BY <1>2 DEF SetValue
  <2>2. x[1] \in Keys /\ x[2] \in Scalars
    BY ConfigStoreAssumption DEF ConfigStoreAssumption
  <2>3. IsTree(SetNested(config, x[1], x[2]))
    BY <1>1, <2>2, SetIsTree
  <2>4. \A r \in Paths : ~ IsPrefix(x[1], r) /\ ~ IsPrefix(r, x[1]) =>
                    /\ Lookup(SetNested(config, x[1], x[2]), r) = Lookup(config, r)
                    /\ r \in DOMAIN SetNested(config, x[1], x[2]) <=> r \in DOMAIN config
    BY <1>1, <2>2, SetElsewhere
  <2> QED
    BY <2>1, <2>2, <2>3, <2>4
<1>3. CASE RemoveValue(t)
  <2>1. PICK p \in Removals : Changes(t, p, RemoveKey(config, p))
    BY <1>3 DEF RemoveValue
  <2>2. p \in Keys
    BY ConfigStoreAssumption DEF ConfigStoreAssumption
  <2>3. IsTree(RemoveKey(config, p))
    BY <1>1, <2>2, RemoveIsTree
  <2>4. \A r \in Paths : ~ IsPrefix(p, r) /\ ~ IsPrefix(r, p) =>
                    /\ Lookup(RemoveKey(config, p), r) = Lookup(config, r)
                    /\ r \in DOMAIN RemoveKey(config, p) <=> r \in DOMAIN config
    BY <1>1, <2>2, RemoveElsewhere
  <2> QED
    BY <2>1, <2>2, <2>3, <2>4
<1> QED
  BY <1>2, <1>3

LEMMA NotifyTyped ==
    ASSUME StoreTypes, NEW t \in ConfigTasks, NotifyChanges(t)
    PROVE  /\ Becomes(t, call'[t]) /\ \A u \in ConfigTasks : u # t => call'[u] = call[u]
           /\ call[t].place = "notify"
           /\ \/ call[t].steps = <<>> /\ call'[t] = NoCall
              \/ /\ call[t].steps # <<>> /\ Step(t).kind = "file" /\ call'[t].place = "record"
                 /\ call'[t].steps = call[t].steps /\ call'[t].copied = call[t].copied
                 /\ call'[t].alone = call[t].alone
              \/ call[t].steps # <<>> /\ Step(t).kind # "file" /\ call'[t] = StepDone(call[t])
           /\ known' = [w \in Watchers |->
                           IF w \in Told(t) THEN Lookup(config, WatchOf[w]) ELSE known[w]]
           /\ hushed' = hushed \ Told(t)
           /\ UNCHANGED <<config, fileVars, watching, checkVars>>
<1>1. CallOK(call[t]) /\ call[t].place = "notify"
  BY DEF StoreTypes, NotifyChanges
<1>2. CASE call[t].steps = <<>>
  <2>1. call' = [call EXCEPT ![t] = NoCall]
    BY <1>2 DEF NotifyChanges
  <2>2. Becomes(t, NoCall) /\ \A u \in ConfigTasks : u # t => call'[u] = call[u]
    BY <2>1, NoCallOK, CallGoesOn
  <2>3. call'[t] = NoCall
    BY <2>2 DEF Becomes
  <2> QED
    BY <1>1, <1>2, <2>2, <2>3 DEF NotifyChanges
<1>3. CASE call[t].steps # <<>> /\ Step(t).kind = "file"
  <2> DEFINE c == [call[t] EXCEPT !.place = "record"]
  <2>1. call' = [call EXCEPT ![t] = c]
    BY <1>3 DEF NotifyChanges
  <2>2. /\ CallOK(c) /\ c.place = "record" /\ c.steps = call[t].steps /\ c.copied = call[t].copied
        /\ c.alone = call[t].alone
    BY <1>1, <1>3, PlaceOK DEF Step
  <2> HIDE DEF c
  <2>3. Becomes(t, c) /\ \A u \in ConfigTasks : u # t => call'[u] = call[u]
    BY <2>1, <2>2, CallGoesOn
  <2>4. call'[t] = c
    BY <2>3 DEF Becomes
  <2> QED
    BY <1>1, <1>3, <2>2, <2>3, <2>4 DEF NotifyChanges
<1>4. CASE call[t].steps # <<>> /\ Step(t).kind # "file"
  <2>1. call' = [call EXCEPT ![t] = StepDone(call[t])]
    BY <1>4 DEF NotifyChanges
  <2>2. CallOK(StepDone(call[t]))
    BY <1>1, <1>4, DoneOK
  <2>3. Becomes(t, StepDone(call[t])) /\ \A u \in ConfigTasks : u # t => call'[u] = call[u]
    BY <2>1, <2>2, CallGoesOn
  <2>4. call'[t] = StepDone(call[t])
    BY <2>3 DEF Becomes
  <2> QED
    BY <1>1, <1>4, <2>3, <2>4 DEF NotifyChanges
<1> QED
  BY <1>2, <1>3, <1>4

LEMMA RecordTyped ==
    ASSUME StoreTypes, NEW t \in ConfigTasks, RecordPath(t)
    PROVE  /\ Becomes(t, call'[t]) /\ OthersMeddledWith(t)
           /\ call[t].place = "record" /\ call[t].steps # <<>>
           /\ Step(t) = Head(call[t].steps) /\ Step(t) \in StepSet /\ Step(t).kind = "file"
           /\ call'[t] = StepDone(call[t])
           /\ sourcePaths' = Append(sourcePaths, <<Step(t).file, Step(t).source>>)
           /\ sourcePaths' \in Seq(ConfigFiles \X Sources) /\ savePath' \in ConfigFiles \cup {Missing}
           /\ UNCHANGED <<config, disk, watchVars, checkVars>>
<1>1. CallOK(call[t]) /\ call[t].place = "record"
  BY DEF StoreTypes, RecordPath
<1>2. call[t].steps # <<>> /\ call[t].steps \in Seq(StepSet) /\ Head(call[t].steps).kind = "file"
  BY <1>1 DEF CallOK
<1>3. Step(t) = Head(call[t].steps) /\ Step(t) \in StepSet /\ Step(t).kind = "file"
  BY <1>2, HeadAndTail DEF Step
<1>4. Step(t).file \in ConfigFiles /\ Step(t).source \in Sources
  BY <1>3, StepFields
<1>5. CallOK(StepDone(call[t]))
  BY <1>1, <1>2, DoneOK
<1>6. Meddles(t, StepDone(call[t]))
  BY DEF RecordPath
<1>7. Becomes(t, StepDone(call[t])) /\ call'[t] = StepDone(call[t]) /\ OthersMeddledWith(t)
  BY <1>5, <1>6, MeddlesTyped
<1>8. /\ sourcePaths' = Append(sourcePaths, <<Step(t).file, Step(t).source>>)
      /\ savePath' \in {Step(t).file, savePath}
      /\ UNCHANGED <<config, disk, watchVars, checkVars>>
  BY DEF RecordPath
<1>9. sourcePaths \in Seq(ConfigFiles \X Sources) /\ savePath \in ConfigFiles \cup {Missing}
  BY DEF StoreTypes
<1>10. <<Step(t).file, Step(t).source>> \in ConfigFiles \X Sources
  BY <1>4
<1>11. sourcePaths' \in Seq(ConfigFiles \X Sources)
  BY <1>8, <1>9, <1>10, AppendProperties
<1> QED
  BY <1>1, <1>2, <1>3, <1>4, <1>7, <1>8, <1>9, <1>11

LEMMA SaveTyped ==
    ASSUME StoreTypes, NEW t \in ConfigTasks, Save(t)
    PROVE  /\ Becomes(t, call'[t]) /\ OthersMeddledWith(t)
           /\ call[t].place = "idle" /\ call'[t] = NoCall
           /\ DOMAIN disk' = ConfigFiles
           /\ \A f \in ConfigFiles : disk'[f] \in {Missing, Garbled} \/ IsTree(disk'[f])
           /\ UNCHANGED <<config, sourcePaths, savePath, watchVars, checkVars>>
<1>1. Becomes(t, NoCall) /\ call'[t] = NoCall /\ OthersMeddledWith(t)
  BY NoCallOK, MeddlesTyped DEF Save
<1>2. PICK f \in ConfigFiles \cup {Missing} :
        LET to == IF f = Missing THEN savePath ELSE f IN
          /\ to # Missing
          /\ \/ disk' = [disk EXCEPT ![to] = config]
             \/ disk' = [disk EXCEPT ![to] = Garbled]
  BY DEF Save
<1>3. PICK to \in ConfigFiles, x \in {config, Garbled} : disk' = [disk EXCEPT ![to] = x]
  BY <1>2 DEF StoreTypes
<1>4. DOMAIN disk = ConfigFiles /\ IsTree(config)
      /\ \A g \in ConfigFiles : disk[g] \in {Missing, Garbled} \/ IsTree(disk[g])
  BY DEF StoreTypes
<1>5. DOMAIN disk' = ConfigFiles /\ \A g \in ConfigFiles : disk'[g] = IF g = to THEN x ELSE disk[g]
  BY <1>3, <1>4
<1>6. \A g \in ConfigFiles : disk'[g] \in {Missing, Garbled} \/ IsTree(disk'[g])
  BY <1>3, <1>4, <1>5
<1> QED
  BY <1>1, <1>5, <1>6 DEF Save

LEMMA DamageTyped ==
    ASSUME StoreTypes, NEW f \in ConfigFiles, Damage(f)
    PROVE  /\ DOMAIN call' = ConfigTasks
           /\ \A u \in ConfigTasks : CallOK(call'[u]) /\ SameCall(call[u], call'[u]) /\ call'[u].alone = FALSE
           /\ DOMAIN disk' = ConfigFiles
           /\ \A g \in ConfigFiles : disk'[g] \in {Missing, Garbled} \/ IsTree(disk'[g])
           /\ UNCHANGED <<config, sourcePaths, savePath, watchVars, checkVars>>
<1>1. call' = [t \in ConfigTasks |-> [call[t] EXCEPT !.alone = FALSE]]
  BY DEF Damage
<1>2. DOMAIN call' = ConfigTasks /\ \A u \in ConfigTasks : call'[u] = [call[u] EXCEPT !.alone = FALSE]
  BY <1>1
<1>3. ASSUME NEW u \in ConfigTasks
      PROVE  CallOK(call'[u]) /\ SameCall(call[u], call'[u]) /\ call'[u].alone = FALSE
  <2>1. CallOK(call[u]) /\ call'[u] = [call[u] EXCEPT !.alone = FALSE]
    BY <1>2 DEF StoreTypes
  <2> QED
    BY <2>1, LonelyOK DEF SameCall
<1>4. PICK x \in {Missing, Garbled} : disk' = [disk EXCEPT ![f] = x]
  BY DEF Damage
<1>5. DOMAIN disk = ConfigFiles
      /\ \A g \in ConfigFiles : disk[g] \in {Missing, Garbled} \/ IsTree(disk[g])
  BY DEF StoreTypes
<1>6. DOMAIN disk' = ConfigFiles
      /\ \A g \in ConfigFiles : disk'[g] \in {Missing, Garbled} \/ IsTree(disk'[g])
  BY <1>4, <1>5
<1> QED
  BY <1>2, <1>3, <1>6 DEF Damage

--------------------------------------------------------------------------------
(* The cases of a step.                                                    *)
QuietStep(t) == LoadCall(t) \/ Reload(t) \/ ReadStep(t) \/ Validate(t) \/ Return(t)

LEMMA StoreCases ==
    ASSUME [ConfigNext]_configVars
    PROVE  \/ \E t \in ConfigTasks :
                \/ QuietStep(t) \/ SetValue(t) \/ RemoveValue(t) \/ Save(t) \/ Clear(t)
                \/ MergeConfig(t) \/ NotifyChanges(t) \/ RecordPath(t)
           \/ \E w \in Watchers : OnChange(w) \/ OffChange(w) \/ OffChangeAll(WatchOf[w])
           \/ \E p \in DOMAIN Refused : AddValidator(p) \/ RemoveValidator(p)
           \/ \E f \in ConfigFiles : Damage(f)
           \/ UNCHANGED call /\ Elsewhere
BY DEF ConfigNext, ConfigCall, ConfigStep, QuietStep, LoadCall, ReadStep, ToggleHotReload,
       Elsewhere, configVars, fileVars, watchVars, checkVars

LEMMA QuietTyped ==
    ASSUME StoreTypes, NEW t \in ConfigTasks, QuietStep(t)
    PROVE  /\ Becomes(t, call'[t]) /\ \A u \in ConfigTasks : u # t => call'[u] = call[u]
           /\ call[t].place # "notify" /\ Elsewhere
BY LoadTyped, ReloadTyped, ReadTyped, ValidateTyped, ReturnTyped DEF QuietStep

LEMMA StoreTypesInit == ConfigInit => StoreTypes
<1> SUFFICES ASSUME ConfigInit PROVE StoreTypes
  OBVIOUS
<1>1. IsTree(config) /\ DOMAIN call = ConfigTasks /\ \A t \in ConfigTasks : CallOK(call[t])
  BY EmptyIsTree, NoCallOK DEF ConfigInit
<1>2. \A f \in ConfigFiles : disk[f] \in {Missing, Garbled} \/ IsTree(disk[f])
  BY ConfigStoreAssumption DEF ConfigInit, ConfigStoreAssumption
<1>3. DOMAIN disk = ConfigFiles
  BY DEF ConfigInit, ConfigFiles
<1> QED
  BY <1>1, <1>2, <1>3 DEF ConfigInit, StoreTypes

LEMMA StoreTypesNext == StoreTypes /\ [ConfigNext]_configVars => StoreTypes'
<1> SUFFICES ASSUME StoreTypes, [ConfigNext]_configVars PROVE StoreTypes'
  OBVIOUS
<1> USE DEF fileVars, watchVars, checkVars
<1>1. ASSUME NEW t \in ConfigTasks, QuietStep(t) PROVE StoreTypes'
  <2>1. Becomes(t, call'[t]) /\ Elsewhere
    BY <1>1, QuietTyped
  <2> QED
    BY <2>1 DEF StoreTypes, Becomes, Elsewhere
<1>2. ASSUME NEW t \in ConfigTasks, SetValue(t) \/ RemoveValue(t) PROVE StoreTypes'
  <2>1. PICK p \in Keys : \E tree : Changes(t, p, tree) /\ IsTree(tree)
    BY <1>2, SetTyped
  <2>2. PICK tree : Changes(t, p, tree) /\ IsTree(tree)
    BY <2>1
  <2>3. /\ Becomes(t, call'[t]) /\ config' = tree /\ unchecked' = unchecked \cup Reached(p)
        /\ UNCHANGED <<fileVars, watchVars, validators>>
    BY <2>2, ChangesTyped
  <2>4. Reached(p) \subseteq validators
    BY DEF Reached
  <2> QED
    BY <2>2, <2>3, <2>4 DEF StoreTypes, Becomes
<1>3. ASSUME NEW t \in ConfigTasks, Save(t) PROVE StoreTypes'
  <2>1. /\ Becomes(t, call'[t]) /\ DOMAIN disk' = ConfigFiles
        /\ \A f \in ConfigFiles : disk'[f] \in {Missing, Garbled} \/ IsTree(disk'[f])
        /\ UNCHANGED <<config, sourcePaths, savePath, watchVars, checkVars>>
    BY <1>3, SaveTyped
  <2> QED
    BY <2>1 DEF StoreTypes, Becomes
<1>4. ASSUME NEW t \in ConfigTasks, Clear(t) PROVE StoreTypes'
  <2>1. /\ Becomes(t, call'[t]) /\ config' = EmptyConfig /\ hushed' \subseteq hushed \cup watching
        /\ UNCHANGED <<fileVars, watching, known, checkVars>>
    BY <1>4, ClearTyped
  <2> QED
    BY <2>1, EmptyIsTree DEF StoreTypes, Becomes
<1>5. ASSUME NEW t \in ConfigTasks, MergeConfig(t) PROVE StoreTypes'
  <2>1. /\ Becomes(t, call'[t]) /\ IsTree(config')
        /\ unchecked' \subseteq unchecked \cup validators
        /\ UNCHANGED <<fileVars, watchVars, validators>>
    BY <1>5, MergeTyped
  <2> QED
    BY <2>1 DEF StoreTypes, Becomes
<1>6. ASSUME NEW t \in ConfigTasks, NotifyChanges(t) PROVE StoreTypes'
  <2>1. /\ Becomes(t, call'[t]) /\ DOMAIN known' = Watchers /\ hushed' \subseteq hushed
        /\ UNCHANGED <<config, fileVars, watching, checkVars>>
    BY <1>6, NotifyTyped
  <2> QED
    BY <2>1 DEF StoreTypes, Becomes
<1>7. ASSUME NEW t \in ConfigTasks, RecordPath(t) PROVE StoreTypes'
  <2>1. /\ Becomes(t, call'[t])
        /\ sourcePaths' \in Seq(ConfigFiles \X Sources) /\ savePath' \in ConfigFiles \cup {Missing}
        /\ UNCHANGED <<config, disk, watchVars, checkVars>>
    BY <1>7, RecordTyped
  <2> QED
    BY <2>1 DEF StoreTypes, Becomes
<1>8. ASSUME NEW w \in Watchers, OnChange(w) \/ OffChange(w) \/ OffChangeAll(WatchOf[w]) PROVE StoreTypes'
  BY <1>8 DEF StoreTypes, OnChange, OffChange, OffChangeAll, StopsWatching
<1>9. ASSUME NEW p \in DOMAIN Refused, AddValidator(p) \/ RemoveValidator(p) PROVE StoreTypes'
  BY <1>9 DEF StoreTypes, AddValidator, RemoveValidator
<1>10. ASSUME NEW f \in ConfigFiles, Damage(f) PROVE StoreTypes'
  <2>1. /\ DOMAIN call' = ConfigTasks /\ (\A u \in ConfigTasks : CallOK(call'[u]))
        /\ DOMAIN disk' = ConfigFiles
        /\ \A g \in ConfigFiles : disk'[g] \in {Missing, Garbled} \/ IsTree(disk'[g])
        /\ UNCHANGED <<config, sourcePaths, savePath, watchVars, checkVars>>
    BY <1>10, DamageTyped
  <2> QED
    BY <2>1 DEF StoreTypes
<1>11. ASSUME UNCHANGED call, Elsewhere PROVE StoreTypes'
  BY <1>11 DEF StoreTypes, Elsewhere
<1> QED
  BY <1>1, <1>2, <1>3, <1>4, <1>5, <1>6, <1>7, <1>8, <1>9, <1>10, <1>11, StoreCases

--------------------------------------------------------------------------------
\* A watcher was told what is there, or a change that it will be told of is on its way: one
\* that began with what it was told.
UpToDate(w) ==
    \/ known[w] = Lookup(config, WatchOf[w])
    \/ \E t \in ConfigTasks :
          /\ call[t].place = "notify" /\ Watches(w, call[t].changed)
          /\ Lookup(call[t].old, WatchOf[w]) = known[w]

WatchInv == \A w \in watching \ hushed : UpToDate(w)

LEMMA WatchInit == ConfigInit => WatchInv
BY DEF ConfigInit, WatchInv

\* What others are about to tell they go on to tell.
LEMMA StillUpToDate ==
    ASSUME StoreTypes, NEW t \in ConfigTasks, Becomes(t, call'[t]), call[t].place # "notify",
           NEW w \in Watchers, UpToDate(w), known'[w] = known[w],
           Lookup(config', WatchOf[w]) = Lookup(config, WatchOf[w])
           \/ /\ call'[t].place = "notify" /\ Watches(w, call'[t].changed)
              /\ call'[t].old = config
    PROVE  UpToDate(w)'
<1>1. CASE known[w] = Lookup(config, WatchOf[w])
  BY <1>1 DEF UpToDate, Watches
<1>2. CASE \E u \in ConfigTasks :
             /\ call[u].place = "notify" /\ Watches(w, call[u].changed)
             /\ Lookup(call[u].old, WatchOf[w]) = known[w]
  <2>1. PICK u \in ConfigTasks :
             /\ call[u].place = "notify" /\ Watches(w, call[u].changed)
             /\ Lookup(call[u].old, WatchOf[w]) = known[w]
    BY <1>2
  <2>2. /\ call'[u].place = "notify" /\ call'[u].changed = call[u].changed
        /\ call'[u].old = call[u].old
    BY <2>1 DEF Becomes, SameCall
  <2> QED
    BY <2>1, <2>2 DEF UpToDate, Watches
<1> QED
  BY <1>1, <1>2 DEF UpToDate

LEMMA WatchNext == StoreTypes /\ WatchInv /\ [ConfigNext]_configVars => WatchInv'
<1> SUFFICES ASSUME StoreTypes, WatchInv, [ConfigNext]_configVars PROVE WatchInv'
  OBVIOUS
<1> USE DEF fileVars, watchVars, checkVars
<1>0. watching \subseteq Watchers /\ hushed \subseteq watching
      /\ \A w \in Watchers : WatchOf[w] \in Paths
  BY ConfigStoreAssumption DEF StoreTypes, ConfigStoreAssumption, Keys, Paths
<1>1. ASSUME NEW t \in ConfigTasks, QuietStep(t) PROVE WatchInv'
  <2>1. Becomes(t, call'[t]) /\ call[t].place # "notify" /\ Elsewhere
    BY <1>1, QuietTyped
  <2> QED
    BY <1>0, <2>1, StillUpToDate DEF WatchInv, Elsewhere
<1>2. ASSUME NEW t \in ConfigTasks, SetValue(t) \/ RemoveValue(t) PROVE WatchInv'
  <2>1. PICK p \in Keys : \E tree :
              /\ Changes(t, p, tree) /\ IsTree(tree)
              /\ \A r \in Paths : ~ IsPrefix(p, r) /\ ~ IsPrefix(r, p) =>
                    Lookup(tree, r) = Lookup(config, r)
    BY <1>2, SetTyped
  <2>2. PICK tree :
              /\ Changes(t, p, tree) /\ IsTree(tree)
              /\ \A r \in Paths : ~ IsPrefix(p, r) /\ ~ IsPrefix(r, p) =>
                    Lookup(tree, r) = Lookup(config, r)
    BY <2>1
  <2>3. /\ Becomes(t, call'[t]) /\ call[t].place = "idle" /\ call'[t].place = "notify"
        /\ call'[t].changed = p /\ call'[t].old = config /\ config' = tree
        /\ UNCHANGED watchVars
    BY <2>2, ChangesTyped
  <2>4. ASSUME NEW w \in watching \ hushed PROVE UpToDate(w)'
    <3>1. CASE Watches(w, p)
      BY <1>0, <2>3, <3>1, StillUpToDate DEF WatchInv
    <3>2. CASE ~ Watches(w, p)
      <4>1. Lookup(config', WatchOf[w]) = Lookup(config, WatchOf[w])
        BY <1>0, <2>2, <2>3, <3>2 DEF Watches
      <4> QED
        BY <1>0, <2>3, <4>1, StillUpToDate DEF WatchInv
    <3> QED
      BY <3>1, <3>2
  <2> QED
    BY <2>3, <2>4 DEF WatchInv
<1>3. ASSUME NEW t \in ConfigTasks, Save(t) PROVE WatchInv'
  <2>1. Becomes(t, call'[t]) /\ call[t].place = "idle" /\ UNCHANGED <<config, watchVars>>
    BY <1>3, SaveTyped
  <2> QED
    BY <1>0, <2>1, StillUpToDate DEF WatchInv
<1>4. ASSUME NEW t \in ConfigTasks, Clear(t) PROVE WatchInv'
  <2>1. /\ Becomes(t, call'[t]) /\ call[t].place = "clear" /\ config' = EmptyConfig
        /\ hushed' = hushed \cup {w \in watching : Lookup(config, WatchOf[w]) #
                                                   Lookup(EmptyConfig, WatchOf[w])}
        /\ UNCHANGED <<watching, known>>
    BY <1>4, ClearTyped
  <2>2. ASSUME NEW w \in watching' \ hushed' PROVE UpToDate(w)'
    <3>1. w \in watching \ hushed /\ Lookup(config', WatchOf[w]) = Lookup(config, WatchOf[w])
      BY <2>1, <2>2
    <3> QED
      BY <1>0, <2>1, <3>1, StillUpToDate DEF WatchInv
  <2> QED
    BY <2>2 DEF WatchInv
<1>5. ASSUME NEW t \in ConfigTasks, MergeConfig(t) PROVE WatchInv'
  <2>1. /\ Becomes(t, call'[t]) /\ call[t].place = "merge" /\ call'[t].place = "notify"
        /\ call'[t].changed = <<>> /\ call'[t].old = config
        /\ UNCHANGED watchVars
    BY <1>5, MergeTyped
  <2>2. ASSUME NEW w \in watching \ hushed PROVE UpToDate(w)'
    <3>1. Watches(w, <<>>)
      BY <1>0, PrefixEnds DEF Watches
    <3> QED
      BY <1>0, <2>1, <3>1, StillUpToDate DEF WatchInv
  <2> QED
    BY <2>1, <2>2 DEF WatchInv
<1>6. ASSUME NEW t \in ConfigTasks, NotifyChanges(t) PROVE WatchInv'
  <2>1. /\ Becomes(t, call'[t])
        /\ known' = [w \in Watchers |->
                        IF w \in Told(t) THEN Lookup(config, WatchOf[w]) ELSE known[w]]
        /\ hushed' = hushed \ Told(t)
        /\ UNCHANGED <<config, watching>>
    BY <1>6, NotifyTyped
  <2>2. ASSUME NEW w \in watching' \ hushed' PROVE UpToDate(w)'
    <3>1. w \in watching /\ w \in Watchers
      BY <1>0, <2>1, <2>2
    <3>2. CASE w \in Told(t)
      BY <2>1, <3>1, <3>2 DEF UpToDate
    <3>3. CASE w \notin Told(t)
      <4>1. w \in watching \ hushed /\ known'[w] = known[w]
        BY <2>1, <2>2, <3>1, <3>3
      <4>2. ~ Watches(w, call[t].changed) \/ Lookup(call[t].old, WatchOf[w]) = Lookup(config, WatchOf[w])
        BY <3>1, <3>3 DEF Told
      <4>3. CASE known[w] = Lookup(config, WatchOf[w])
        BY <2>1, <4>1, <4>3 DEF UpToDate
      <4>4. CASE known[w] # Lookup(config, WatchOf[w])
        <5>1. PICK u \in ConfigTasks :
                /\ call[u].place = "notify" /\ Watches(w, call[u].changed)
                /\ Lookup(call[u].old, WatchOf[w]) = known[w]
          BY <4>1, <4>4 DEF WatchInv, UpToDate
        <5>2. u # t
          BY <4>2, <4>4, <5>1
        <5>3. /\ call'[u].place = "notify" /\ call'[u].changed = call[u].changed
              /\ call'[u].old = call[u].old
          BY <2>1, <5>1, <5>2 DEF Becomes, SameCall
        <5> QED
          BY <4>1, <5>1, <5>3 DEF UpToDate, Watches
      <4> QED
        BY <4>3, <4>4
    <3> QED
      BY <3>2, <3>3
  <2> QED
    BY <2>2 DEF WatchInv
<1>7. ASSUME NEW t \in ConfigTasks, RecordPath(t) PROVE WatchInv'
  <2>1. Becomes(t, call'[t]) /\ call[t].place = "record" /\ UNCHANGED <<config, watchVars>>
    BY <1>7, RecordTyped
  <2> QED
    BY <1>0, <2>1, StillUpToDate DEF WatchInv
<1>8. ASSUME NEW w \in Watchers, OnChange(w) PROVE WatchInv'
  <2>1. DOMAIN known = Watchers
    BY DEF StoreTypes
  <2>2. UpToDate(w)'
    BY <1>8, <2>1 DEF OnChange, UpToDate
  <2>3. \A x \in watching \ hushed : UpToDate(x)'
    BY <1>8, <2>1 DEF OnChange, UpToDate, WatchInv, Watches
  <2> QED
    BY <1>8, <2>2, <2>3 DEF OnChange, WatchInv
<1>9. ASSUME NEW w \in Watchers, OffChange(w) \/ OffChangeAll(WatchOf[w]) PROVE WatchInv'
  <2>1. PICK ws : StopsWatching(ws)
    BY <1>9 DEF OffChange, OffChangeAll
  <2> QED
    BY <2>1 DEF StopsWatching, WatchInv, UpToDate, Watches
<1>10. ASSUME NEW f \in ConfigFiles, Damage(f) PROVE WatchInv'
  <2>1. /\ \A u \in ConfigTasks : SameCall(call[u], call'[u])
        /\ UNCHANGED <<config, watchVars>>
    BY <1>10, DamageTyped
  <2> QED
    <3>1. ASSUME NEW w \in watching \ hushed PROVE UpToDate(w)'
      <4>1. CASE known[w] = Lookup(config, WatchOf[w])
        BY <2>1, <4>1 DEF UpToDate
      <4>2. CASE known[w] # Lookup(config, WatchOf[w])
        <5>1. PICK u \in ConfigTasks :
                /\ call[u].place = "notify" /\ Watches(w, call[u].changed)
                /\ Lookup(call[u].old, WatchOf[w]) = known[w]
          BY <4>2 DEF WatchInv, UpToDate
        <5>2. /\ call'[u].place = "notify" /\ call'[u].changed = call[u].changed
              /\ call'[u].old = call[u].old
          BY <2>1, <5>1 DEF SameCall
        <5> QED
          BY <2>1, <5>1, <5>2 DEF UpToDate, Watches
      <4> QED
        BY <4>1, <4>2
    <3> QED
      BY <2>1, <3>1 DEF WatchInv
<1>11. ASSUME UNCHANGED <<call, config, watchVars>> PROVE WatchInv'
  BY <1>11 DEF WatchInv, UpToDate, Watches
<1>12. ASSUME NEW p \in DOMAIN Refused, AddValidator(p) \/ RemoveValidator(p) PROVE WatchInv'
  BY <1>11, <1>12 DEF AddValidator, RemoveValidator
<1>13. ASSUME UNCHANGED call, Elsewhere PROVE WatchInv'
  BY <1>11, <1>13 DEF Elsewhere
<1> QED
  BY <1>1, <1>2, <1>3, <1>4, <1>5, <1>6, <1>7, <1>8, <1>9, <1>10, <1>12, <1>13, StoreCases

\* ConfigManager of config.rs, for any number of callers: once no change is between its write
\* and its notifications, every watcher was told last what it would read now, unless a
\* reload took the value away.
THEOREM WatchersAlwaysUpToDate == ConfigSpec => []WatchersUpToDate
<1>1. WatchInv => WatchersUpToDate
  BY DEF WatchInv, WatchersUpToDate, UpToDate
<1> QED
  BY <1>1, StoreTypesInit, StoreTypesNext, WatchInit, WatchNext, PTL DEF ConfigSpec

--------------------------------------------------------------------------------
\* What is about to be merged has passed the validators that nothing came past.
CheckedFor(c, p) ==
    c.place = "merge" /\ Head(c.steps).kind \in {"file", "text"} => ~ Rejected(p, c.content)

ChecksInv ==
    \A p \in validators \ unchecked :
        ~ Rejected(p, config) /\ \A t \in ConfigTasks : CheckedFor(call[t], p)

LEMMA ChecksInit == ConfigInit => ChecksInv
BY DEF ConfigInit, ChecksInv

LEMMA StillChecked ==
    ASSUME NEW c, NEW d, SameCall(c, d), NEW p, CheckedFor(c, p)
    PROVE  CheckedFor(d, p)
BY DEF SameCall, CheckedFor

\* The others are checked as before.
LEMMA OthersChecked ==
    ASSUME ChecksInv, NEW t \in ConfigTasks, Becomes(t, call'[t]),
           validators' = validators, unchecked \subseteq unchecked',
           \A p \in validators \ unchecked' : ~ Rejected(p, config') /\ CheckedFor(call'[t], p)
    PROVE  ChecksInv'
<1>1. ASSUME NEW p \in validators \ unchecked', NEW u \in ConfigTasks PROVE CheckedFor(call'[u], p)
  <2>1. CheckedFor(call[u], p)
    BY DEF ChecksInv
  <2>2. u # t => SameCall(call[u], call'[u])
    BY DEF Becomes
  <2>3. CASE u = t
    BY <2>3
  <2>4. CASE u # t
    BY <2>1, <2>2, <2>4, StillChecked
  <2> QED
    BY <2>3, <2>4
<1>2. \A p \in validators \ unchecked' : ~ Rejected(p, config') /\ \A u \in ConfigTasks : CheckedFor(call'[u], p)
  BY <1>1
<1> QED
  BY <1>2 DEF ChecksInv, CheckedFor, Rejected

LEMMA ChecksNext == StoreTypes /\ ChecksInv /\ [ConfigNext]_configVars => ChecksInv'
<1> SUFFICES ASSUME StoreTypes, ChecksInv, [ConfigNext]_configVars PROVE ChecksInv'
  OBVIOUS
<1> USE DEF fileVars, watchVars, checkVars
<1>0. validators \subseteq Keys /\ unchecked \subseteq validators /\ Keys \subseteq Paths /\ IsTree(config)
      /\ \A p \in validators \ unchecked : ~ Rejected(p, config)
  BY ConfigStoreAssumption DEF StoreTypes, ConfigStoreAssumption, Keys, Paths, ChecksInv
<1>1. ASSUME NEW t \in ConfigTasks, LoadCall(t) \/ Reload(t) \/ Return(t) PROVE ChecksInv'
  <2>1. Becomes(t, call'[t]) /\ call'[t].place # "merge" /\ Elsewhere
    BY <1>1, LoadTyped, ReloadTyped, ReturnTyped, NoCallOK
  <2>2. \A p : CheckedFor(call'[t], p)
    BY <2>1 DEF CheckedFor
  <2> QED
    BY <1>0, <2>1, <2>2, OthersChecked DEF Elsewhere, Rejected
<1>2. ASSUME NEW t \in ConfigTasks, ReadStep(t) PROVE ChecksInv'
  <2>1. Becomes(t, call'[t]) /\ ReadsTo(t, call'[t]) /\ Elsewhere
    BY <1>2, ReadTyped
  <2>2. NoCall.place = "idle" /\ (call'[t] = StepDone(call[t]) => call'[t].place # "merge")
    <3>1. CallOK(call[t]) /\ call[t].steps # <<>>
      BY <1>2 DEF StoreTypes, ReadStep, ReadFile, ReadText, ReadDefault, ReadEnvironment, HasStep
    <3> QED
      BY <3>1, DoneOK, NoCallOK
  <2>3. \A p : CheckedFor(call'[t], p)
    BY <2>1, <2>2 DEF CheckedFor, ReadsTo, Step
  <2> QED
    BY <1>0, <2>1, <2>3, OthersChecked DEF Elsewhere, Rejected
<1>3. ASSUME NEW t \in ConfigTasks, Validate(t) PROVE ChecksInv'
  <2>1. /\ Becomes(t, call'[t]) /\ Elsewhere
        /\ \/ call'[t] = NoCall
           \/ /\ \A p \in validators : ~ Rejected(p, call[t].content)
              /\ call'[t].content = call[t].content
    BY <1>3, ValidateTyped
  <2>2. \A p \in validators : CheckedFor(call'[t], p)
    BY <2>1, NoCallOK DEF CheckedFor, Rejected
  <2> QED
    BY <1>0, <2>1, <2>2, OthersChecked DEF Elsewhere, Rejected
<1>4. ASSUME NEW t \in ConfigTasks, SetValue(t) \/ RemoveValue(t) PROVE ChecksInv'
  <2>1. PICK p \in Keys : \E tree :
              /\ Changes(t, p, tree) /\ IsTree(tree)
              /\ \A r \in Paths : ~ IsPrefix(p, r) /\ ~ IsPrefix(r, p) =>
                    /\ Lookup(tree, r) = Lookup(config, r)
                    /\ r \in DOMAIN tree <=> r \in DOMAIN config
    BY <1>4, SetTyped
  <2>2. PICK tree :
              /\ Changes(t, p, tree) /\ IsTree(tree)
              /\ \A r \in Paths : ~ IsPrefix(p, r) /\ ~ IsPrefix(r, p) =>
                    /\ Lookup(tree, r) = Lookup(config, r)
                    /\ r \in DOMAIN tree <=> r \in DOMAIN config
    BY <2>1
  <2>3. /\ Becomes(t, call'[t]) /\ call'[t].place = "notify" /\ config' = tree
        /\ unchecked' = unchecked \cup Reached(p) /\ validators' = validators
    BY <2>2, ChangesTyped
  <2>4. ASSUME NEW r \in validators \ unchecked' PROVE ~ Rejected(r, config')
    <3>1. ~ IsPrefix(p, r) /\ ~ IsPrefix(r, p) /\ r \in Paths /\ ~ Rejected(r, config)
      BY <1>0, <2>3, <2>4 DEF Reached
    <3> QED
      BY <2>2, <2>3, <3>1 DEF Rejected
  <2>5. \A r : CheckedFor(call'[t], r)
    BY <2>3 DEF CheckedFor
  <2> QED
    BY <2>3, <2>4, <2>5, OthersChecked
<1>5. ASSUME NEW t \in ConfigTasks, Save(t) \/ NotifyChanges(t) \/ RecordPath(t) PROVE ChecksInv'
  <2>1. Becomes(t, call'[t]) /\ UNCHANGED <<config, checkVars>>
    BY <1>5, SaveTyped, NotifyTyped, RecordTyped
  <2>2. call'[t].place # "merge"
    <3>1. CASE Save(t)
      BY <3>1, SaveTyped, NoCallOK
    <3>2. CASE NotifyChanges(t)
      <4>1. \/ call'[t] = NoCall \/ call'[t].place = "record"
            \/ call[t].steps # <<>> /\ call'[t] = StepDone(call[t])
        BY <3>2, NotifyTyped
      <4> QED
        BY <4>1, DoneOK, NoCallOK DEF StoreTypes
    <3>3. CASE RecordPath(t)
      <4>1. call[t].steps # <<>> /\ call'[t] = StepDone(call[t])
        BY <3>3, RecordTyped
      <4> QED
        BY <4>1, DoneOK DEF StoreTypes
    <3> QED
      BY <1>5, <3>1, <3>2, <3>3
  <2>3. \A p : CheckedFor(call'[t], p)
    BY <2>2 DEF CheckedFor
  <2> QED
    BY <1>0, <2>1, <2>3, OthersChecked DEF Rejected
<1>6. ASSUME NEW t \in ConfigTasks, Clear(t) PROVE ChecksInv'
  <2>1. Becomes(t, call'[t]) /\ call'[t].place = "next" /\ config' = EmptyConfig /\ UNCHANGED checkVars
    BY <1>6, ClearTyped
  <2>2. \A p \in validators : ~ Rejected(p, config')
    BY <1>0, <2>1, EmptyIsTree DEF Rejected, Keys
  <2>3. \A p : CheckedFor(call'[t], p)
    BY <2>1 DEF CheckedFor
  <2> QED
    BY <2>1, <2>2, <2>3, OthersChecked
<1>7. ASSUME NEW t \in ConfigTasks, MergeConfig(t) PROVE ChecksInv'
  <2>1. /\ Becomes(t, call'[t]) /\ call[t].place = "merge" /\ call'[t].place = "notify"
        /\ IsTree(call[t].content) /\ config' = DeepMerge(config, call[t].content)
        /\ unchecked' = unchecked \cup {p \in validators : PastValidator(t, p)}
        /\ validators' = validators
    BY <1>7, MergeTyped
  <2>2. ASSUME NEW p \in validators \ unchecked' PROVE ~ Rejected(p, config')
    <3>1. ~ PastValidator(t, p) /\ p \in Paths /\ ~ Rejected(p, config) /\ CheckedFor(call[t], p)
      BY <1>0, <2>1, <2>2 DEF ChecksInv
    <3>2. CASE p \notin DOMAIN call[t].content
      <4>1. p \in DOMAIN config' => Lookup(config', p) = Lookup(config, p) /\ p \in DOMAIN config
        BY <1>0, <2>1, <3>1, <3>2, MergeElsewhere
      <4> QED
        BY <3>1, <4>1 DEF Rejected
    <3>3. CASE p \in DOMAIN call[t].content
      <4>1. CallOK(call[t]) /\ Head(call[t].steps) \in StepSet
        BY <2>1, HeadAndTail DEF StoreTypes, CallOK
      <4>2. Head(call[t].steps).kind \in {"file", "text"}
            /\ Lookup(config', p) = Lookup(call[t].content, p)
        BY <2>1, <3>1, <3>3, <4>1, StepFields DEF PastValidator, Step
      <4> QED
        BY <2>1, <3>1, <3>3, <4>2 DEF CheckedFor, Rejected
    <3> QED
      BY <3>2, <3>3
  <2>3. \A p : CheckedFor(call'[t], p)
    BY <2>1 DEF CheckedFor
  <2> QED
    BY <2>1, <2>2, <2>3, OthersChecked
<1>8. ASSUME UNCHANGED <<call, config, checkVars>> PROVE ChecksInv'
  BY <1>8 DEF ChecksInv, CheckedFor, Rejected
<1>9. ASSUME NEW w \in Watchers, OnChange(w) \/ OffChange(w) \/ OffChangeAll(WatchOf[w]) PROVE ChecksInv'
  BY <1>8, <1>9 DEF OnChange, OffChange, OffChangeAll, StopsWatching
<1>10. ASSUME NEW p \in DOMAIN Refused, AddValidator(p) PROVE ChecksInv'
  <2>1. /\ validators' = validators \cup {p} /\ UNCHANGED <<config, call>>
        /\ unchecked \subseteq unchecked'
        /\ p \notin unchecked' =>
              /\ ~ Rejected(p, config)
              /\ \A t \in ConfigTasks : ~ (call[t].place = "merge" /\ p \in DOMAIN call[t].content)
    BY <1>10 DEF AddValidator
  <2>2. p \notin unchecked' => \A t \in ConfigTasks : CheckedFor(call[t], p)
    BY <2>1 DEF CheckedFor, Rejected
  <2>3. \A r \in validators' \ unchecked' :
          ~ Rejected(r, config) /\ \A t \in ConfigTasks : CheckedFor(call[t], r)
    BY <2>1, <2>2 DEF ChecksInv
  <2> QED
    BY <2>1, <2>3 DEF ChecksInv, CheckedFor, Rejected
<1>11. ASSUME NEW p \in DOMAIN Refused, RemoveValidator(p) PROVE ChecksInv'
  <2>1. validators' \ unchecked' \subseteq validators \ unchecked /\ UNCHANGED <<config, call>>
    BY <1>11 DEF RemoveValidator
  <2> QED
    BY <2>1 DEF ChecksInv, CheckedFor, Rejected
<1>12. ASSUME NEW f \in ConfigFiles, Damage(f) PROVE ChecksInv'
  <2>1. (\A u \in ConfigTasks : SameCall(call[u], call'[u])) /\ UNCHANGED <<config, checkVars>>
    BY <1>12, DamageTyped
  <2>2. \A p \in validators \ unchecked : ~ Rejected(p, config) /\ \A u \in ConfigTasks : CheckedFor(call'[u], p)
    BY <2>1, StillChecked DEF ChecksInv
  <2> QED
    BY <2>1, <2>2 DEF ChecksInv, CheckedFor, Rejected
<1>13. ASSUME UNCHANGED call, Elsewhere PROVE ChecksInv'
  BY <1>8, <1>13 DEF Elsewhere
<1> QED
  BY <1>1, <1>2, <1>3, <1>4, <1>5, <1>6, <1>7, <1>9, <1>10, <1>11, <1>12, <1>13, StoreCases DEF QuietStep

--------------------------------------------------------------------------------
(* The configuration store: reloads.                                       *)

\* The two functions that say what a reload leaves are what their definitions say, whatever
\* the files hold.
LEMMA RebuiltIs ==
    ASSUME NEW xs, Len(xs) \in Nat
    PROVE  Rebuilt(xs) =
             [k \in 0..Len(xs) |->
                IF k = 0 THEN EmptyConfig
                ELSE IF Source(xs[k]) = Missing THEN Rebuilt(xs)[k - 1]
                ELSE DeepMerge(Rebuilt(xs)[k - 1], Source(xs[k]))]
<1> DEFINE n == Len(xs)
           Body(f, m) == [k \in 0..m |->
                IF k = 0 THEN EmptyConfig
                ELSE IF Source(xs[k]) = Missing THEN f[k - 1]
                ELSE DeepMerge(f[k - 1], Source(xs[k]))]
           S == {m \in 0..n : \E f : f = Body(f, m)}
<1>1. 0 \in S
  <2> DEFINE f == [k \in 0..0 |-> EmptyConfig]
  <2>1. f = Body(f, 0)
    OBVIOUS
  <2>2. 0 \in 0..n
    OBVIOUS
  <2> HIDE DEF f, n, Body
  <2> QED
    BY <2>1, <2>2
<1>2. ASSUME NEW m \in 0..(n - 1), m \in S PROVE m + 1 \in S
  <2>1. PICK f : f = Body(f, m)
    BY <1>2
  <2> DEFINE last == IF Source(xs[m + 1]) = Missing THEN f[m] ELSE DeepMerge(f[m], Source(xs[m + 1]))
             h == [k \in 0..(m + 1) |-> IF k = m + 1 THEN last ELSE f[k]]
  <2>2. \A k \in 0..m : h[k] = f[k]
    OBVIOUS
  <2>3. ASSUME NEW k \in 0..(m + 1) PROVE h[k] = Body(h, m + 1)[k]
    <3>1. CASE k = m + 1
      <4>1. k # 0 /\ k - 1 = m /\ h[k - 1] = f[m] /\ h[k] = last
        BY <3>1, <2>2
      <4> QED
        BY <3>1, <4>1
    <3>2. CASE k \in 0..m
      <4>1. f[k] = Body(f, m)[k]
        BY <2>1
      <4>2. k # 0 => k - 1 \in 0..m /\ h[k - 1] = f[k - 1]
        BY <2>2, <3>2
      <4> QED
        BY <2>2, <3>2, <4>1, <4>2
    <3> QED
      BY <3>1, <3>2
  <2>4. h = Body(h, m + 1)
    BY <2>3
  <2>5. m + 1 \in 0..n
    OBVIOUS
  <2> HIDE DEF h, Body
  <2> QED
    BY <2>4, <2>5
<1>3. n \in S
  <2>1. n \in Nat /\ n \in 0..n
    OBVIOUS
  <2> HIDE DEF S, n
  <2> QED
    BY <1>1, <1>2, <2>1, UpTo
<1>4. PICK f : f = Body(f, n)
  BY <1>3
<1>5. Rebuilt(xs) = Body(Rebuilt(xs), n)
  BY <1>4 DEF Rebuilt
<1> QED
  BY <1>5

LEMMA RecordedIs ==
    ASSUME NEW xs, Len(xs) \in Nat
    PROVE  Recorded(xs) =
             [k \in 0..Len(xs) |->
                IF k = 0 THEN xs
                ELSE IF Source(xs[k]) = Missing THEN Recorded(xs)[k - 1]
                ELSE Append(Recorded(xs)[k - 1], xs[k])]
<1> DEFINE n == Len(xs)
           Body(f, m) == [k \in 0..m |->
                IF k = 0 THEN xs
                ELSE IF Source(xs[k]) = Missing THEN f[k - 1]
                ELSE Append(f[k - 1], xs[k])]
           S == {m \in 0..n : \E f : f = Body(f, m)}
<1>1. 0 \in S
  <2> DEFINE f == [k \in 0..0 |-> xs]
  <2>1. f = Body(f, 0)
    OBVIOUS
  <2>2. 0 \in 0..n
    OBVIOUS
  <2> HIDE DEF f, n, Body
  <2> QED
    BY <2>1, <2>2
<1>2. ASSUME NEW m \in 0..(n - 1), m \in S PROVE m + 1 \in S
  <2>1. PICK f : f = Body(f, m)
    BY <1>2
  <2> DEFINE last == IF Source(xs[m + 1]) = Missing THEN f[m] ELSE Append(f[m], xs[m + 1])
             h == [k \in 0..(m + 1) |-> IF k = m + 1 THEN last ELSE f[k]]
  <2>2. \A k \in 0..m : h[k] = f[k]
    OBVIOUS
  <2>3. ASSUME NEW k \in 0..(m + 1) PROVE h[k] = Body(h, m + 1)[k]
    <3>1. CASE k = m + 1
      <4>1. k # 0 /\ k - 1 = m /\ h[k - 1] = f[m] /\ h[k] = last
        BY <3>1, <2>2
      <4> QED
        BY <3>1, <4>1
    <3>2. CASE k \in 0..m
      <4>1. f[k] = Body(f, m)[k]
        BY <2>1
      <4>2. k # 0 => k - 1 \in 0..m /\ h[k - 1] = f[k - 1]
        BY <2>2, <3>2
      <4> QED
        BY <2>2, <3>2, <4>1, <4>2
    <3> QED
      BY <3>1, <3>2
  <2>4. h = Body(h, m + 1)
    BY <2>3
  <2>5. m + 1 \in 0..n
    OBVIOUS
  <2> HIDE DEF h, Body
  <2> QED
    BY <2>4, <2>5
<1>3. n \in S
  <2>1. n \in Nat /\ n \in 0..n
    OBVIOUS
  <2> HIDE DEF S, n
  <2> QED
    BY <1>1, <1>2, <2>1, UpTo
<1>4. PICK f : f = Body(f, n)
  BY <1>3
<1>5. Recorded(xs) = Body(Recorded(xs), n)
  BY <1>4 DEF Recorded
<1> QED
  BY <1>5

\* One step of each.
LEMMA RebuiltSteps ==
    ASSUME NEW xs \in Seq(ConfigFiles \X Sources)
    PROVE  /\ Rebuilt(xs)[0] = EmptyConfig /\ Recorded(xs)[0] = xs
           /\ \A k \in 0..(Len(xs) - 1) :
                 IF Source(xs[k + 1]) = Missing
                 THEN Rebuilt(xs)[k + 1] = Rebuilt(xs)[k] /\ Recorded(xs)[k + 1] = Recorded(xs)[k]
                 ELSE /\ Rebuilt(xs)[k + 1] = DeepMerge(Rebuilt(xs)[k], Source(xs[k + 1]))
                      /\ Recorded(xs)[k + 1] = Append(Recorded(xs)[k], xs[k + 1])
<1> DEFINE n == Len(xs)
<1>1. n \in Nat
  OBVIOUS
<1>2. Rebuilt(xs) = [k \in 0..n |->
                IF k = 0 THEN EmptyConfig
                ELSE IF Source(xs[k]) = Missing THEN Rebuilt(xs)[k - 1]
                ELSE DeepMerge(Rebuilt(xs)[k - 1], Source(xs[k]))]
  BY <1>1, RebuiltIs
<1>3. Recorded(xs) = [k \in 0..n |->
                IF k = 0 THEN xs
                ELSE IF Source(xs[k]) = Missing THEN Recorded(xs)[k - 1]
                ELSE Append(Recorded(xs)[k - 1], xs[k])]
  BY <1>1, RecordedIs
<1> HIDE DEF n
<1>4. Rebuilt(xs)[0] = EmptyConfig /\ Recorded(xs)[0] = xs
  <2>1. 0 \in 0..n
    BY <1>1
  <2> QED
    BY <1>2, <1>3, <2>1
<1>5. ASSUME NEW k \in 0..(n - 1)
      PROVE  IF Source(xs[k + 1]) = Missing
             THEN Rebuilt(xs)[k + 1] = Rebuilt(xs)[k] /\ Recorded(xs)[k + 1] = Recorded(xs)[k]
             ELSE /\ Rebuilt(xs)[k + 1] = DeepMerge(Rebuilt(xs)[k], Source(xs[k + 1]))
                  /\ Recorded(xs)[k + 1] = Append(Recorded(xs)[k], xs[k + 1])
  <2>1. k + 1 \in 0..n /\ k + 1 # 0 /\ (k + 1) - 1 = k
    BY <1>1
  <2>2. Rebuilt(xs)[k + 1] = IF Source(xs[k + 1]) = Missing THEN Rebuilt(xs)[k]
                             ELSE DeepMerge(Rebuilt(xs)[k], Source(xs[k + 1]))
    BY <1>2, <2>1
  <2>3. Recorded(xs)[k + 1] = IF Source(xs[k + 1]) = Missing THEN Recorded(xs)[k]
                              ELSE Append(Recorded(xs)[k], xs[k + 1])
    BY <1>3, <2>1
  <2> QED
    BY <2>2, <2>3
<1> QED
  BY <1>4, <1>5 DEF n

LEMMA RebuiltSame ==
    ASSUME disk' = disk, NEW xs
    PROVE  Rebuilt(xs)' = Rebuilt(xs) /\ Recorded(xs)' = Recorded(xs)
BY DEF Rebuilt, Recorded, Source

--------------------------------------------------------------------------------
(* Where a reload is that nobody meddled with: k of its files are done, and rebuilt and     *)
(* recorded are what the files make of the configuration and of the list.                   *)
Reloading(d) == d.copied # <<>> /\ d.alone

Done(d) == Len(d.copied) + 1 - Len(d.steps)

\* The steps that are left.
StepsLeft(d) ==
    /\ Done(d) \in 0..(Len(d.copied) + 1)
    /\ \A i \in 1..Len(d.steps) : d.steps[i] = ReloadSteps(d.copied)[Done(d) + i]

\* The configuration and the list of files at d, when k of the files are done.
Stage(d, k, n, tree, paths, files, rebuilt, recorded) ==
    /\ d.place = "clear" => k = 0 /\ paths = d.copied
    /\ d.place \in {"next", "validate", "merge"} /\ k <= n => tree = rebuilt[k] /\ paths = recorded[k]
    /\ d.place \in {"validate", "merge"} /\ k < n =>
          d.content = files[d.copied[k + 1][1]] /\ d.content # Missing
    /\ d.place = "merge" /\ k = n => d.content \in EnvTrees \ {EmptyConfig}
    /\ d.place \in {"notify", "record"} /\ k < n =>
          /\ files[d.copied[k + 1][1]] # Missing
          /\ tree = rebuilt[k + 1] /\ paths = recorded[k]
    /\ d.place = "notify" /\ k = n =>
          /\ \E env \in EnvTrees \ {EmptyConfig} : tree = DeepMerge(rebuilt[n], env)
          /\ paths = recorded[n]
    /\ d.place = "next" /\ k = n + 1 =>
          /\ \E env \in EnvTrees :
                tree = IF env = EmptyConfig THEN rebuilt[n] ELSE DeepMerge(rebuilt[n], env)
          /\ paths = recorded[n]

OnItsWay(d, tree, paths, files, rebuilt, recorded) ==
    /\ d.place # "idle" /\ StepsLeft(d)
    /\ Stage(d, Done(d), Len(d.copied), tree, paths, files, rebuilt, recorded)

Rebuilding(t) ==
    Reloading(call[t]) =>
        OnItsWay(call[t], config, sourcePaths, disk,
                 Rebuilt(call[t].copied), Recorded(call[t].copied))

RebuildInv == \A t \in ConfigTasks : Rebuilding(t)

LEMMA RebuildInit == ConfigInit => RebuildInv
BY NoCallOK DEF ConfigInit, RebuildInv, Rebuilding, Reloading

\* A call that has nothing copied is no reload.
LEMMA NoReload ==
    ASSUME NEW t \in ConfigTasks, (call[t].copied)' = <<>>
    PROVE  Rebuilding(t)'
BY DEF Rebuilding, Reloading

\* A step of one task leaves the others where they are, or has meddled with them.
LEMMA OthersRebuilding ==
    ASSUME RebuildInv, NEW t \in ConfigTasks, Rebuilding(t)',
           \/ OthersMeddledWith(t)
           \/ UNCHANGED <<config, sourcePaths, disk>> /\ \A u \in ConfigTasks : u # t => call'[u] = call[u]
    PROVE  RebuildInv'
<1>1. ASSUME NEW u \in ConfigTasks, u # t PROVE Rebuilding(u)'
  <2>1. CASE OthersMeddledWith(t)
    BY <1>1, <2>1 DEF OthersMeddledWith, Rebuilding, Reloading
  <2>2. CASE UNCHANGED <<config, sourcePaths, disk>> /\ call'[u] = call[u]
    <3>1. Rebuilding(u)
      BY DEF RebuildInv
    <3>2. Rebuilt(call[u].copied)' = Rebuilt(call[u].copied) /\ Recorded(call[u].copied)' = Recorded(call[u].copied)
      BY <2>2, RebuiltSame DEF Rebuilt, Recorded, Source
    <3> QED
      BY <2>2, <3>1, <3>2 DEF Rebuilding
  <2> QED
    BY <1>1, <2>1, <2>2
<1> QED
  BY <1>1 DEF RebuildInv

LEMMA DoneAndLeft ==
    ASSUME NEW m \in Nat, NEW l \in Nat, l # 0, NEW k \in 0..(m + 1), k = m + 1 - l
    PROVE  k \in 0..m /\ m + 1 - (l - 1) = k + 1
OBVIOUS

LEMMA NextStep ==
    ASSUME NEW d, CallOK(d), StepsLeft(d), d.steps # <<>>
    PROVE  /\ Done(d) \in 0..Len(d.copied) /\ Len(d.copied) \in Nat
           /\ Done(d) < Len(d.copied) =>
                 Head(d.steps) = FileStep(d.copied[Done(d) + 1][1], d.copied[Done(d) + 1][2], TRUE)
           /\ Done(d) = Len(d.copied) => Head(d.steps) = EnvStep
<1>1. d.steps \in Seq(StepSet) /\ d.copied \in Seq(ConfigFiles \X Sources)
  BY DEF CallOK
<1>2. Len(d.steps) \in Nat \ {0} /\ Head(d.steps) = d.steps[1]
  BY <1>1, HeadAndTail
<1>3. /\ Len(d.copied) \in Nat
      /\ \A i \in 1..Len(d.copied) : ReloadSteps(d.copied)[i] = FileStep(d.copied[i][1], d.copied[i][2], TRUE)
      /\ ReloadSteps(d.copied)[Len(d.copied) + 1] = EnvStep
  BY <1>1, ReloadStepsAre
<1>4. d.steps[1] = ReloadSteps(d.copied)[Done(d) + 1]
  BY <1>2 DEF StepsLeft
<1>5. Done(d) \in 0..Len(d.copied)
  <2>1. Done(d) = Len(d.copied) + 1 - Len(d.steps) /\ Done(d) \in 0..(Len(d.copied) + 1)
    BY DEF Done, StepsLeft
  <2>2. Len(d.copied) \in Nat /\ Len(d.steps) \in Nat /\ Len(d.steps) # 0
    BY <1>2, <1>3
  <2> QED
    BY <1>2, <2>1, <2>2, DoneAndLeft
<1>6. Done(d) < Len(d.copied) => Done(d) + 1 \in 1..Len(d.copied)
  BY <1>3, <1>5
<1> QED
  BY <1>2, <1>3, <1>4, <1>5, <1>6

LEMMA OneMoreDone ==
    ASSUME NEW d, CallOK(d), StepsLeft(d), d.steps # <<>>,
           NEW e, e.steps = Tail(d.steps), e.copied = d.copied
    PROVE  StepsLeft(e) /\ Done(e) = Done(d) + 1
<1>1. d.steps \in Seq(StepSet) /\ d.copied \in Seq(ConfigFiles \X Sources)
  BY DEF CallOK
<1>2. /\ Len(d.steps) \in Nat \ {0} /\ Len(Tail(d.steps)) = Len(d.steps) - 1
      /\ \A i \in 1..Len(Tail(d.steps)) : Tail(d.steps)[i] = d.steps[i + 1]
  BY <1>1, HeadAndTail
<1>3. Len(d.copied) \in Nat
  BY <1>1
<1>4. Done(e) = Done(d) + 1 /\ Done(d) \in 0..Len(d.copied)
  <2>1. Done(d) = Len(d.copied) + 1 - Len(d.steps) /\ Done(d) \in 0..(Len(d.copied) + 1)
    BY DEF Done, StepsLeft
  <2>2. Len(d.copied) \in Nat /\ Len(d.steps) \in Nat /\ Len(d.steps) # 0
    BY <1>2, <1>3
  <2>3. Done(d) = Len(d.copied) + 1 - Len(d.steps) /\ Done(d) \in 0..(Len(d.copied) + 1)
    BY DEF Done, StepsLeft
  <2>5. Done(d) \in 0..Len(d.copied)
    BY <2>2, <2>3, DoneAndLeft
  <2>6. Len(d.copied) + 1 - (Len(d.steps) - 1) = Done(d) + 1
    BY ONLY <2>2, <2>3
  <2>4. Done(e) = Len(d.copied) + 1 - (Len(d.steps) - 1)
    BY <1>2 DEF Done
  <2> QED
    BY <2>4, <2>5, <2>6
<1>5. ASSUME NEW i \in 1..Len(e.steps)
      PROVE  e.steps[i] = ReloadSteps(e.copied)[Done(e) + i]
  <2>1. i + 1 \in 1..Len(d.steps) /\ e.steps[i] = d.steps[i + 1]
    BY <1>2
  <2>2. Done(d) + (i + 1) = Done(e) + i
    BY <1>4
  <2> QED
    BY <2>1, <2>2 DEF StepsLeft
<1>6. Done(e) \in 0..(Len(e.copied) + 1)
  BY <1>3, <1>4
<1> QED
  BY <1>4, <1>5, <1>6 DEF StepsLeft

\* Steps of a reload.  d and e are what the task does before and after.
LEMMA ReloadBegins ==
    ASSUME StoreTypes, NEW t \in ConfigTasks, Reload(t)
    PROVE  Rebuilding(t)'
<1>1. /\ call'[t].place = "clear" /\ call'[t].copied = sourcePaths
      /\ call'[t].steps = ReloadSteps(sourcePaths) /\ Elsewhere
  BY ReloadTyped
<1>2. sourcePaths \in Seq(ConfigFiles \X Sources)
  BY DEF StoreTypes
<1>3. Len(sourcePaths) \in Nat /\ Len(ReloadSteps(sourcePaths)) = Len(sourcePaths) + 1
  BY <1>2, ReloadStepsAre
<1>4. Done(call'[t]) = 0
  BY <1>1, <1>3 DEF Done
<1>5. StepsLeft(call'[t])
  BY <1>1, <1>3, <1>4 DEF StepsLeft
<1>6. sourcePaths' = call'[t].copied
  BY <1>1 DEF Elsewhere, fileVars
<1>7. OnItsWay(call'[t], config', sourcePaths', disk',
               Rebuilt(call[t].copied)', Recorded(call[t].copied)')
  BY <1>1, <1>3, <1>4, <1>5, <1>6 DEF OnItsWay, Stage
<1> QED
  BY <1>7 DEF Rebuilding

\* What a step of a reload starts from.
LEMMA ReloadKeepsCopied ==
    ASSUME StoreTypes, RebuildInv, NEW t \in ConfigTasks,
           Reloading(call'[t]),
           call'[t].copied = call[t].copied, call'[t].alone = call[t].alone
    PROVE  /\ CallOK(call[t]) /\ StepsLeft(call[t])
           /\ Stage(call[t], Done(call[t]), Len(call[t].copied), config, sourcePaths, disk,
                    Rebuilt(call[t].copied), Recorded(call[t].copied))
           /\ call[t].copied \in Seq(ConfigFiles \X Sources) /\ Len(call[t].copied) \in Nat
<1>1. Rebuilding(t) /\ CallOK(call[t])
  BY DEF RebuildInv, StoreTypes
<1>2. call[t].copied \in Seq(ConfigFiles \X Sources)
  BY <1>1 DEF CallOK
<1> QED
  BY <1>1, <1>2 DEF Reloading, Rebuilding, OnItsWay

LEMMA ReloadClears ==
    ASSUME StoreTypes, RebuildInv, NEW t \in ConfigTasks, Clear(t)
    PROVE  Rebuilding(t)'
<1> DEFINE d == call[t]
           e == call'[t]
<1>1. /\ d.place = "clear" /\ e.place = "next" /\ e.steps = d.steps /\ e.copied = d.copied
      /\ e.alone = d.alone /\ config' = EmptyConfig /\ UNCHANGED fileVars
  BY ClearTyped
<1> SUFFICES ASSUME Reloading(e)
             PROVE  OnItsWay(e, config', sourcePaths', disk',
                             Rebuilt(call[t].copied)', Recorded(call[t].copied)')
  BY DEF Rebuilding
<1>2. /\ CallOK(d) /\ StepsLeft(d)
      /\ Stage(d, Done(d), Len(d.copied), config, sourcePaths, disk, Rebuilt(d.copied), Recorded(d.copied))
      /\ d.copied \in Seq(ConfigFiles \X Sources) /\ Len(d.copied) \in Nat
  BY <1>1, ReloadKeepsCopied
<1>3. Done(d) = 0 /\ sourcePaths = d.copied
  BY <1>1, <1>2 DEF Stage
<1>4. Rebuilt(d.copied)[0] = EmptyConfig /\ Recorded(d.copied)[0] = d.copied
  BY <1>2, RebuiltSteps
<1>5. Rebuilt(call[t].copied)' = Rebuilt(d.copied) /\ Recorded(call[t].copied)' = Recorded(d.copied)
  BY <1>1 DEF Rebuilt, Recorded, Source, fileVars
<1>6. Done(e) = 0 /\ StepsLeft(e)
  BY <1>1, <1>2, <1>3 DEF Done, StepsLeft
<1>7. sourcePaths' = d.copied
  BY <1>1, <1>3 DEF fileVars
<1> HIDE DEF d, e
<1> QED
  BY <1>1, <1>2, <1>3, <1>4, <1>5, <1>6, <1>7 DEF OnItsWay, Stage

\* What a reload is about to do next, by how many of its files are done.
LEMMA ReloadNext ==
    ASSUME NEW t \in ConfigTasks, CallOK(call[t]), StepsLeft(call[t]), call[t].steps # <<>>,
           call[t].copied \in Seq(ConfigFiles \X Sources)
    PROVE  LET d == call[t]  k == Done(d)  n == Len(d.copied) IN
           /\ k \in 0..n /\ n \in Nat
           /\ k < n => /\ Step(t).kind = "file" /\ Step(t).file = d.copied[k + 1][1]
                       /\ <<Step(t).file, Step(t).source>> = d.copied[k + 1]
                       /\ k \in 0..(n - 1) /\ k + 1 \in 0..n /\ k # n /\ k + 1 # n + 1
           /\ k = n => Step(t).kind = "env"
<1> DEFINE d == call[t]
           k == Done(d)
           n == Len(d.copied)
<1>1. /\ k \in 0..n /\ n \in Nat
      /\ k < n => Step(t) = FileStep(d.copied[k + 1][1], d.copied[k + 1][2], TRUE)
      /\ k = n => Step(t) = EnvStep
  BY NextStep DEF Step
<1>2. k < n => k + 1 \in 1..n /\ k \in 0..(n - 1) /\ k + 1 \in 0..n /\ k # n /\ k + 1 # n + 1
  <2> HIDE DEF k, n
  <2> QED
    BY <1>1
<1>3. \A i \in 1..n : d.copied[i] = <<d.copied[i][1], d.copied[i][2]>>
  OBVIOUS
<1>4. k < n => /\ Step(t).kind = "file" /\ Step(t).file = d.copied[k + 1][1]
               /\ <<Step(t).file, Step(t).source>> = d.copied[k + 1]
  <2> SUFFICES ASSUME k < n
               PROVE  /\ Step(t).kind = "file" /\ Step(t).file = d.copied[k + 1][1]
                      /\ <<Step(t).file, Step(t).source>> = d.copied[k + 1]
    OBVIOUS
  <2>1. d.copied[k + 1] = <<d.copied[k + 1][1], d.copied[k + 1][2]>>
    BY <1>2, <1>3
  <2>2. Step(t).kind = "file" /\ Step(t).file = d.copied[k + 1][1] /\ Step(t).source = d.copied[k + 1][2]
    BY <1>1 DEF FileStep
  <2> QED
    BY <2>1, <2>2
<1>5. k = n => Step(t).kind = "env"
  BY <1>1 DEF EnvStep
<1> QED
  BY <1>1, <1>2, <1>4, <1>5

LEMMA ReloadReads ==
    ASSUME StoreTypes, RebuildInv, NEW t \in ConfigTasks, ReadStep(t)
    PROVE  Rebuilding(t)'
<1> DEFINE d == call[t]
           e == call'[t]
           k == Done(d)
           n == Len(d.copied)
           rebuilt == Rebuilt(d.copied)
           recorded == Recorded(d.copied)
<1>1. d.place = "next" /\ ReadsTo(t, e) /\ Elsewhere /\ CallOK(d) /\ d.steps # <<>>
  BY ReadTyped DEF StoreTypes, ReadStep, ReadFile, ReadText, ReadDefault, ReadEnvironment, HasStep
<1>2. CASE e = NoCall
  BY <1>2, NoCallOK, NoReload
<1>3. CASE e # NoCall
  <2>1. e.copied = d.copied /\ e.alone = d.alone
    BY <1>1, <1>3, DoneOK DEF ReadsTo
  <2> SUFFICES ASSUME Reloading(e)
               PROVE  OnItsWay(e, config', sourcePaths', disk',
                               Rebuilt(call[t].copied)', Recorded(call[t].copied)')
    BY DEF Rebuilding
  <2>2. /\ StepsLeft(d)
        /\ Stage(d, k, n, config, sourcePaths, disk, rebuilt, recorded)
        /\ d.copied \in Seq(ConfigFiles \X Sources)
    BY <2>1, ReloadKeepsCopied
  <2>3. /\ k \in 0..n /\ n \in Nat
        /\ k < n => /\ Step(t).kind = "file" /\ Step(t).file = d.copied[k + 1][1]
                    /\ k \in 0..(n - 1) /\ k + 1 \in 0..n /\ k # n /\ k + 1 # n + 1
        /\ k = n => Step(t).kind = "env"
    BY <1>1, <2>2, ReloadNext
  <2>4. Rebuilt(call[t].copied)' = rebuilt /\ Recorded(call[t].copied)' = recorded
    BY <1>1, <2>1 DEF Rebuilt, Recorded, Source, Elsewhere, fileVars
  <2>5. config' = config /\ sourcePaths' = sourcePaths /\ disk' = disk
    BY <1>1 DEF Elsewhere, fileVars
  <2>6. config = rebuilt[k] /\ sourcePaths = recorded[k]
    <3> HIDE DEF d, k, n
    <3> QED
      BY <1>1, <2>2, <2>3 DEF Stage
  <2>7. CASE e = StepDone(d) /\ Skips(t)
    <3>1. e.place = "next" /\ StepsLeft(e) /\ Done(e) = k + 1
      BY <1>1, <2>2, <2>7, DoneOK, OneMoreDone
    <3>2. CASE k < n
      <4>1. disk[d.copied[k + 1][1]] = Missing
        BY <2>3, <2>7, <3>2 DEF Skips
      <4>2. rebuilt[k + 1] = rebuilt[k] /\ recorded[k + 1] = recorded[k]
        BY <2>2, <2>3, <3>2, <4>1, RebuiltSteps DEF Source
      <4> HIDE DEF d, e, k, n, rebuilt, recorded
      <4> QED
        BY <2>1, <2>3, <2>4, <2>5, <2>6, <3>1, <3>2, <4>2 DEF OnItsWay, Stage, n
    <3>3. CASE k = n
      <4>1. EmptyConfig \in EnvTrees
        BY <2>3, <2>7, <3>3 DEF Skips
      <4> HIDE DEF d, e, k, n, rebuilt, recorded
      <4>2. n + 1 # 0 /\ ~ (n + 1 <= n) /\ ~ (n + 1 < n) /\ n + 1 # n
        BY <2>3
      <4> QED
        BY <2>1, <2>3, <2>4, <2>5, <2>6, <3>1, <3>3, <4>1, <4>2 DEF OnItsWay, Stage, n
    <3> HIDE DEF k, n
    <3> QED
      BY <2>3, <3>2, <3>3
  <2>8. CASE /\ e.place = "validate" /\ Step(t).kind \in {"file", "text"}
             /\ Step(t).kind = "file" => e.content # Missing
             /\ e.content = IF Step(t).kind = "file" THEN disk[Step(t).file] ELSE Step(t).text
             /\ e.steps = d.steps /\ e.copied = d.copied
    <3>1. k < n
      <4> HIDE DEF k, n
      <4> QED
        BY <2>3, <2>8
    <3>2. StepsLeft(e) /\ Done(e) = k
      BY <2>2, <2>8 DEF StepsLeft, Done
    <3> HIDE DEF d, e, k, n, rebuilt, recorded
    <3> QED
      BY <2>1, <2>3, <2>4, <2>5, <2>6, <2>8, <3>1, <3>2 DEF OnItsWay, Stage, n
  <2>9. CASE /\ e.place = "merge" /\ Step(t).kind \in {"default", "env"}
             /\ Step(t).kind = "env" => e.content \in EnvTrees \ {EmptyConfig}
             /\ e.steps = d.steps /\ e.copied = d.copied
    <3>1. k = n /\ ~ (k < n)
      <4> HIDE DEF k, n
      <4> QED
        BY <2>3, <2>9
    <3>2. StepsLeft(e) /\ Done(e) = k
      BY <2>2, <2>9 DEF StepsLeft, Done
    <3> HIDE DEF d, e, k, n, rebuilt, recorded
    <3> QED
      BY <2>1, <2>3, <2>4, <2>5, <2>6, <2>9, <3>1, <3>2 DEF OnItsWay, Stage, n
  <2> QED
    BY <1>1, <1>3, <2>7, <2>8, <2>9 DEF ReadsTo
<1> QED
  BY <1>2, <1>3

LEMMA ReloadValidates ==
    ASSUME StoreTypes, RebuildInv, NEW t \in ConfigTasks, Validate(t)
    PROVE  Rebuilding(t)'
<1> DEFINE d == call[t]
           e == call'[t]
           k == Done(d)
           n == Len(d.copied)
           rebuilt == Rebuilt(d.copied)
           recorded == Recorded(d.copied)
<1>1. /\ CallOK(d) /\ d.place = "validate" /\ Elsewhere
      /\ \/ e = NoCall
         \/ /\ e.place = "merge" /\ e.content = d.content /\ e.steps = d.steps
            /\ e.copied = d.copied /\ e.alone = d.alone
  BY ValidateTyped DEF StoreTypes
<1>2. CASE e = NoCall
  BY <1>2, NoCallOK, NoReload
<1>3. CASE /\ e.place = "merge" /\ e.content = d.content /\ e.steps = d.steps
           /\ e.copied = d.copied /\ e.alone = d.alone
  <2> SUFFICES ASSUME Reloading(e)
               PROVE  OnItsWay(e, config', sourcePaths', disk',
                               Rebuilt(call[t].copied)', Recorded(call[t].copied)')
    BY DEF Rebuilding
  <2>1. d.steps # <<>> /\ Head(d.steps).kind \in {"file", "text"}
    BY <1>1 DEF CallOK
  <2>2. /\ StepsLeft(d)
        /\ Stage(d, k, n, config, sourcePaths, disk, rebuilt, recorded)
        /\ d.copied \in Seq(ConfigFiles \X Sources)
    BY <1>3, ReloadKeepsCopied
  <2>3. /\ k \in 0..n /\ n \in Nat
        /\ k = n => Step(t).kind = "env"
    BY <1>1, <2>1, <2>2, ReloadNext
  <2>4. Rebuilt(call[t].copied)' = rebuilt /\ Recorded(call[t].copied)' = recorded
    BY <1>1, <1>3 DEF Rebuilt, Recorded, Source, Elsewhere, fileVars
  <2>5. config' = config /\ sourcePaths' = sourcePaths /\ disk' = disk
    BY <1>1 DEF Elsewhere, fileVars
  <2>6. k < n /\ k # n
    <3>1. Step(t).kind # "env"
      BY <2>1 DEF Step
    <3> HIDE DEF k, n
    <3> QED
      BY <2>3, <3>1
  <2>7. StepsLeft(e) /\ Done(e) = k
    BY <1>3, <2>2 DEF StepsLeft, Done
  <2> HIDE DEF d, e, k, n, rebuilt, recorded
  <2> QED
    BY <1>1, <1>3, <2>2, <2>3, <2>4, <2>5, <2>6, <2>7 DEF OnItsWay, Stage, n
<1> QED
  BY <1>1, <1>2, <1>3

LEMMA ReloadMerges ==
    ASSUME StoreTypes, RebuildInv, NEW t \in ConfigTasks, MergeConfig(t)
    PROVE  Rebuilding(t)'
<1> DEFINE d == call[t]
           e == call'[t]
           k == Done(d)
           n == Len(d.copied)
           rebuilt == Rebuilt(d.copied)
           recorded == Recorded(d.copied)
<1>1. /\ CallOK(d) /\ d.place = "merge" /\ e.place = "notify" /\ UNCHANGED fileVars
      /\ e.steps = d.steps /\ e.copied = d.copied /\ e.alone = d.alone
      /\ config' = DeepMerge(config, d.content)
  BY MergeTyped DEF StoreTypes
<1> SUFFICES ASSUME Reloading(e)
             PROVE  OnItsWay(e, config', sourcePaths', disk',
                             Rebuilt(call[t].copied)', Recorded(call[t].copied)')
  BY DEF Rebuilding
<1>2. d.steps # <<>>
  BY <1>1 DEF CallOK
<1>3. /\ StepsLeft(d)
      /\ Stage(d, k, n, config, sourcePaths, disk, rebuilt, recorded)
      /\ d.copied \in Seq(ConfigFiles \X Sources)
  BY <1>1, ReloadKeepsCopied
<1>4. k \in 0..n /\ n \in Nat /\ (k < n => k \in 0..(n - 1) /\ k # n)
  BY <1>1, <1>2, <1>3, ReloadNext
<1>5. Rebuilt(call[t].copied)' = rebuilt /\ Recorded(call[t].copied)' = recorded
  BY <1>1 DEF Rebuilt, Recorded, Source, fileVars
<1>6. sourcePaths' = sourcePaths /\ disk' = disk
  BY <1>1 DEF fileVars
<1>7. config = rebuilt[k] /\ sourcePaths = recorded[k]
  <2> HIDE DEF d, k, n
  <2> QED
    BY <1>1, <1>3, <1>4 DEF Stage
<1>8. StepsLeft(e) /\ Done(e) = k
  BY <1>1, <1>3 DEF StepsLeft, Done
<1>9. CASE k < n
  <2>1. d.content = disk[d.copied[k + 1][1]] /\ d.content # Missing
    <3> HIDE DEF d, k, n
    <3> QED
      BY <1>1, <1>3, <1>9 DEF Stage
  <2>2. rebuilt[k + 1] = DeepMerge(rebuilt[k], d.content)
    BY <1>3, <1>4, <1>9, <2>1, RebuiltSteps DEF Source
  <2>3. config' = rebuilt[k + 1]
    BY <1>1, <1>7, <2>2
  <2> HIDE DEF d, e, k, n, rebuilt, recorded
  <2> QED
    BY <1>1, <1>4, <1>5, <1>6, <1>7, <1>8, <1>9, <2>1, <2>3 DEF OnItsWay, Stage, n
<1>10. CASE k = n
  <2>1. d.content \in EnvTrees \ {EmptyConfig} /\ ~ (k < n)
    <3> HIDE DEF d, k, n
    <3> QED
      BY <1>1, <1>3, <1>4, <1>10 DEF Stage
  <2>2. config' = DeepMerge(rebuilt[n], d.content)
    BY <1>1, <1>7, <1>10
  <2> HIDE DEF d, e, k, n, rebuilt, recorded
  <2> QED
    BY <1>1, <1>4, <1>5, <1>6, <1>7, <1>8, <1>10, <2>1, <2>2 DEF OnItsWay, Stage, n
<1> HIDE DEF k, n
<1> QED
  BY <1>4, <1>9, <1>10

LEMMA ReloadNotifies ==
    ASSUME StoreTypes, RebuildInv, NEW t \in ConfigTasks, NotifyChanges(t)
    PROVE  Rebuilding(t)'
<1> DEFINE d == call[t]
           e == call'[t]
           k == Done(d)
           n == Len(d.copied)
           rebuilt == Rebuilt(d.copied)
           recorded == Recorded(d.copied)
<1>1. /\ CallOK(d) /\ d.place = "notify" /\ UNCHANGED <<config, fileVars>>
      /\ \/ d.steps = <<>> /\ e = NoCall
         \/ /\ d.steps # <<>> /\ Step(t).kind = "file" /\ e.place = "record"
            /\ e.steps = d.steps /\ e.copied = d.copied /\ e.alone = d.alone
         \/ d.steps # <<>> /\ Step(t).kind # "file" /\ e = StepDone(d)
  BY NotifyTyped DEF StoreTypes
<1>2. CASE e = NoCall
  BY <1>2, NoCallOK, NoReload
<1>3. CASE d.steps # <<>> /\ e.copied = d.copied /\ e.alone = d.alone /\ e # NoCall
  <2> SUFFICES ASSUME Reloading(e)
               PROVE  OnItsWay(e, config', sourcePaths', disk',
                               Rebuilt(call[t].copied)', Recorded(call[t].copied)')
    BY DEF Rebuilding
  <2>1. /\ StepsLeft(d)
        /\ Stage(d, k, n, config, sourcePaths, disk, rebuilt, recorded)
        /\ d.copied \in Seq(ConfigFiles \X Sources)
    BY <1>3, ReloadKeepsCopied
  <2>2. /\ k \in 0..n /\ n \in Nat
        /\ k < n => Step(t).kind = "file" /\ k # n
        /\ k = n => Step(t).kind = "env"
    BY <1>1, <1>3, <2>1, ReloadNext
  <2>3. Rebuilt(call[t].copied)' = rebuilt /\ Recorded(call[t].copied)' = recorded
    BY <1>1, <1>3 DEF Rebuilt, Recorded, Source, fileVars
  <2>4. config' = config /\ sourcePaths' = sourcePaths /\ disk' = disk
    BY <1>1 DEF fileVars
  <2>5. CASE Step(t).kind = "file" /\ e.place = "record" /\ e.steps = d.steps
    <3>1. k < n /\ k # n
      <4> HIDE DEF k, n
      <4> QED
        BY <2>2, <2>5
    <3>2. StepsLeft(e) /\ Done(e) = k
      BY <1>3, <2>1, <2>5 DEF StepsLeft, Done
    <3> HIDE DEF d, e, k, n, rebuilt, recorded
    <3> QED
      BY <1>1, <1>3, <2>1, <2>2, <2>3, <2>4, <2>5, <3>1, <3>2 DEF OnItsWay, Stage, n
  <2>6. CASE Step(t).kind # "file" /\ e = StepDone(d)
    <3>1. k = n
      <4> HIDE DEF k, n
      <4> QED
        BY <2>2, <2>6
    <3>2. e.place = "next" /\ StepsLeft(e) /\ Done(e) = k + 1
      BY <1>1, <1>3, <2>1, <2>6, DoneOK, OneMoreDone
    <3>3. /\ \E env \in EnvTrees \ {EmptyConfig} : config = DeepMerge(rebuilt[n], env)
          /\ sourcePaths = recorded[n]
      <4> HIDE DEF d, k, n
      <4> QED
        BY <1>1, <2>1, <3>1 DEF Stage
    <3>4. \E env \in EnvTrees :
             config = IF env = EmptyConfig THEN rebuilt[n] ELSE DeepMerge(rebuilt[n], env)
      <4>1. PICK env \in EnvTrees \ {EmptyConfig} : config = DeepMerge(rebuilt[n], env)
        BY <3>3
      <4> HIDE DEF n, rebuilt
      <4> QED
        BY <4>1
    <3> HIDE DEF d, e, k, n, rebuilt, recorded
    <3>5. n + 1 # 0 /\ ~ (n + 1 <= n) /\ ~ (n + 1 < n) /\ n + 1 # n
      BY <2>2
    <3> QED
      BY <1>3, <2>2, <2>3, <2>4, <3>1, <3>2, <3>3, <3>4, <3>5 DEF OnItsWay, Stage, n
  <2> QED
    BY <1>1, <1>3, <2>5, <2>6
<1> QED
  BY <1>1, <1>2, <1>3, DoneOK

LEMMA ReloadRecords ==
    ASSUME StoreTypes, RebuildInv, NEW t \in ConfigTasks, RecordPath(t)
    PROVE  Rebuilding(t)'
<1> DEFINE d == call[t]
           e == call'[t]
           k == Done(d)
           n == Len(d.copied)
           rebuilt == Rebuilt(d.copied)
           recorded == Recorded(d.copied)
<1>1. /\ CallOK(d) /\ d.place = "record" /\ d.steps # <<>> /\ Step(t).kind = "file"
      /\ e = StepDone(d)
      /\ sourcePaths' = Append(sourcePaths, <<Step(t).file, Step(t).source>>)
      /\ UNCHANGED <<config, disk>>
  BY RecordTyped DEF StoreTypes
<1>2. e.place = "next" /\ e.copied = d.copied /\ e.alone = d.alone
  BY <1>1, DoneOK
<1> SUFFICES ASSUME Reloading(e)
             PROVE  OnItsWay(e, config', sourcePaths', disk',
                             Rebuilt(call[t].copied)', Recorded(call[t].copied)')
  BY DEF Rebuilding
<1>3. /\ StepsLeft(d)
      /\ Stage(d, k, n, config, sourcePaths, disk, rebuilt, recorded)
      /\ d.copied \in Seq(ConfigFiles \X Sources)
  BY <1>2, ReloadKeepsCopied
<1>4. /\ k \in 0..n /\ n \in Nat
      /\ k < n => /\ <<Step(t).file, Step(t).source>> = d.copied[k + 1]
                  /\ k \in 0..(n - 1) /\ k + 1 \in 0..n /\ k # n /\ k + 1 # n + 1
      /\ k = n => Step(t).kind = "env"
  BY <1>1, <1>3, ReloadNext
<1>5. k < n
  <2> HIDE DEF k, n
  <2> QED
    BY <1>1, <1>4
<1>6. Rebuilt(call[t].copied)' = rebuilt /\ Recorded(call[t].copied)' = recorded
  BY <1>1, <1>2 DEF Rebuilt, Recorded, Source
<1>7. /\ disk[d.copied[k + 1][1]] # Missing /\ config = rebuilt[k + 1] /\ sourcePaths = recorded[k]
  <2> HIDE DEF d, k, n
  <2> QED
    BY <1>1, <1>3, <1>5 DEF Stage
<1>8. recorded[k + 1] = Append(recorded[k], d.copied[k + 1])
  BY <1>3, <1>4, <1>5, <1>7, RebuiltSteps DEF Source
<1>9. sourcePaths' = recorded[k + 1] /\ config' = rebuilt[k + 1]
  BY <1>1, <1>4, <1>5, <1>7, <1>8
<1>10. StepsLeft(e) /\ Done(e) = k + 1
  BY <1>1, <1>2, <1>3, DoneOK, OneMoreDone
<1> HIDE DEF d, e, k, n, rebuilt, recorded
<1> QED
  BY <1>2, <1>4, <1>5, <1>6, <1>9, <1>10 DEF OnItsWay, Stage, n

LEMMA RebuildNext == StoreTypes /\ RebuildInv /\ [ConfigNext]_configVars => RebuildInv'
<1> SUFFICES ASSUME StoreTypes, RebuildInv, [ConfigNext]_configVars PROVE RebuildInv'
  OBVIOUS
<1>1. ASSUME NEW t \in ConfigTasks, LoadCall(t) PROVE RebuildInv'
  BY <1>1, LoadTyped, NoReload, OthersRebuilding DEF Elsewhere, fileVars
<1>2. ASSUME NEW t \in ConfigTasks, Reload(t) PROVE RebuildInv'
  BY <1>2, ReloadTyped, ReloadBegins, OthersRebuilding DEF Elsewhere, fileVars
<1>3. ASSUME NEW t \in ConfigTasks, ReadStep(t) PROVE RebuildInv'
  BY <1>3, ReadTyped, ReloadReads, OthersRebuilding DEF Elsewhere, fileVars
<1>4. ASSUME NEW t \in ConfigTasks, Validate(t) PROVE RebuildInv'
  BY <1>4, ValidateTyped, ReloadValidates, OthersRebuilding DEF Elsewhere, fileVars
<1>5. ASSUME NEW t \in ConfigTasks, Return(t) PROVE RebuildInv'
  BY <1>5, ReturnTyped, NoCallOK, NoReload, OthersRebuilding DEF Elsewhere, fileVars
<1>6. ASSUME NEW t \in ConfigTasks, SetValue(t) \/ RemoveValue(t) PROVE RebuildInv'
  <2>1. PICK p \in Keys : \E tree : Changes(t, p, tree) /\ IsTree(tree)
    BY <1>6, SetTyped
  <2>2. PICK tree : Changes(t, p, tree) /\ IsTree(tree)
    BY <2>1
  <2> QED
    BY <2>2, ChangesTyped, NoReload, OthersRebuilding
<1>7. ASSUME NEW t \in ConfigTasks, Save(t) PROVE RebuildInv'
  BY <1>7, SaveTyped, NoCallOK, NoReload, OthersRebuilding
<1>8. ASSUME NEW t \in ConfigTasks, Clear(t) PROVE RebuildInv'
  BY <1>8, ClearTyped, ReloadClears, OthersRebuilding
<1>9. ASSUME NEW t \in ConfigTasks, MergeConfig(t) PROVE RebuildInv'
  BY <1>9, MergeTyped, ReloadMerges, OthersRebuilding
<1>10. ASSUME NEW t \in ConfigTasks, NotifyChanges(t) PROVE RebuildInv'
  BY <1>10, NotifyTyped, ReloadNotifies, OthersRebuilding DEF fileVars
<1>11. ASSUME NEW t \in ConfigTasks, RecordPath(t) PROVE RebuildInv'
  BY <1>11, RecordTyped, ReloadRecords, OthersRebuilding
<1>12. ASSUME NEW f \in ConfigFiles, Damage(f) PROVE RebuildInv'
  BY <1>12, DamageTyped DEF RebuildInv, Rebuilding, Reloading
<1>13. ASSUME UNCHANGED <<call, config, sourcePaths, disk>> PROVE RebuildInv'
  <2>1. ASSUME NEW u \in ConfigTasks PROVE Rebuilding(u)'
    <3>1. Rebuilt(call[u].copied)' = Rebuilt(call[u].copied) /\ Recorded(call[u].copied)' = Recorded(call[u].copied)
      BY <1>13 DEF Rebuilt, Recorded, Source
    <3>2. Rebuilding(u)
      BY DEF RebuildInv
    <3> QED
      BY <1>13, <3>1, <3>2 DEF Rebuilding
  <2> QED
    BY <2>1 DEF RebuildInv
<1>14. ASSUME NEW w \in Watchers, OnChange(w) \/ OffChange(w) \/ OffChangeAll(WatchOf[w]) PROVE RebuildInv'
  BY <1>13, <1>14 DEF OnChange, OffChange, OffChangeAll, StopsWatching, fileVars
<1>15. ASSUME NEW p \in DOMAIN Refused, AddValidator(p) \/ RemoveValidator(p) PROVE RebuildInv'
  BY <1>13, <1>15 DEF AddValidator, RemoveValidator, fileVars
<1>16. ASSUME UNCHANGED call, Elsewhere PROVE RebuildInv'
  BY <1>13, <1>16 DEF Elsewhere, fileVars
<1> QED
  BY <1>1, <1>2, <1>3, <1>4, <1>5, <1>6, <1>7, <1>8, <1>9, <1>10, <1>11, <1>12, <1>14, <1>15, <1>16,
     StoreCases DEF QuietStep

\* A reload that nobody meddled with leaves the files that are there, one over the other,
\* and the environment over them.
LEMMA RebuildIsRebuilt == StoreTypes /\ RebuildInv => ReloadRebuilds
<1> SUFFICES ASSUME StoreTypes, RebuildInv, NEW t \in ConfigTasks,
                    call[t].place = "next", call[t].steps = <<>>, call[t].copied # <<>>, call[t].alone
             PROVE  /\ \E env \in EnvTrees :
                          config = IF env = EmptyConfig
                                   THEN Rebuilt(call[t].copied)[Len(call[t].copied)]
                                   ELSE DeepMerge(Rebuilt(call[t].copied)[Len(call[t].copied)], env)
                    /\ sourcePaths = Recorded(call[t].copied)[Len(call[t].copied)]
  BY DEF ReloadRebuilds
<1>1. OnItsWay(call[t], config, sourcePaths, disk, Rebuilt(call[t].copied), Recorded(call[t].copied))
  BY DEF RebuildInv, Rebuilding, Reloading
<1>2. Len(call[t].copied) \in Nat
  BY DEF StoreTypes, CallOK
<1>3. Done(call[t]) = Len(call[t].copied) + 1
  BY <1>2 DEF Done
<1> QED
  BY <1>1, <1>3 DEF OnItsWay, Stage

\* ConfigManager's loads, for any files and any number of callers: configurations stay trees,
\* what a validator refuses is there only if it came past it, and a reload that nobody
\* meddled with leaves the files that are there, in order, and the environment over them.
THEOREM LoadsAlwaysHold == ConfigSpec => []LoadsHold
<1>1. StoreTypes => ConfigTypeOK
  BY DEF StoreTypes, ConfigTypeOK, CallOK
<1>2. ChecksInv => ValidatorsHold
  BY DEF ChecksInv, ValidatorsHold
<1> QED
  BY <1>1, <1>2, RebuildIsRebuilt, StoreTypesInit, StoreTypesNext, ChecksInit, ChecksNext,
     RebuildInit, RebuildNext, PTL DEF ConfigSpec, LoadsHold

--------------------------------------------------------------------------------
(* The validators.                                                         *)

\* The errors of one field: none if it is right, and otherwise some that name it, none twice.
FieldErrors == [field : {"request_id", "sender", "action", "timestamp"},
                code : {"empty", "range", "format"}]
FieldsOf(errors) == {errors[i].field : i \in 1..Len(errors)}
ErrorsOf(errors, fields) ==
    /\ errors \in Seq(FieldErrors) /\ IsInjective(errors)
    /\ FieldsOf(errors) = fields

LEMMA NoErrors == ErrorsOf(<<>>, {})
BY DEF ErrorsOf, FieldsOf, IsInjective

LEMMA OneError ==
    ASSUME NEW e \in FieldErrors
    PROVE  ErrorsOf(<<e>>, {e.field})
<1>1. <<e>> \in Seq(FieldErrors) /\ DOMAIN <<e>> = 1..1 /\ Len(<<e>>) = 1 /\ <<e>>[1] = e
  OBVIOUS
<1>2. \A i \in 1..1 : i = 1
  OBVIOUS
<1> HIDE DEF FieldErrors
<1>3. IsInjective(<<e>>)
  BY <1>1, <1>2 DEF IsInjective
<1>4. FieldsOf(<<e>>) = {e.field}
  BY <1>1, <1>2 DEF FieldsOf
<1> QED
  BY <1>1, <1>3, <1>4 DEF ErrorsOf

LEMMA BothErrors ==
    ASSUME NEW s, NEW t, NEW F, NEW G, ErrorsOf(s, F), ErrorsOf(t, G),
           \A i \in 1..Len(s), j \in 1..Len(t) : s[i] # t[j]
    PROVE  ErrorsOf(s \o t, F \cup G)
<1> DEFINE st == s \o t
           m == Len(s)
           n == Len(t)
<1>1. s \in Seq(FieldErrors) /\ t \in Seq(FieldErrors)
  BY DEF ErrorsOf
<1>2. /\ st \in Seq(FieldErrors) /\ Len(st) = m + n /\ DOMAIN st = 1..(m + n)
      /\ m \in Nat /\ n \in Nat /\ DOMAIN s = 1..m /\ DOMAIN t = 1..n
      /\ \A i \in 1..(m + n) : st[i] = IF i <= m THEN s[i] ELSE t[i - m]
  BY <1>1, ConcatProperties, LenProperties
<1>3. IsInjective(st)
  <2> SUFFICES ASSUME NEW i \in 1..(m + n), NEW j \in 1..(m + n), st[i] = st[j] PROVE i = j
    BY <1>2 DEF IsInjective
  <2>1. /\ \A a, b \in 1..m : s[a] = s[b] => a = b
        /\ \A a, b \in 1..n : t[a] = t[b] => a = b
    BY <1>2 DEF ErrorsOf, IsInjective
  <2> HIDE DEF st, m, n
  <2>2. i <= m => i \in 1..m /\ st[i] = s[i]
    BY <1>2
  <2>3. j <= m => j \in 1..m /\ st[j] = s[j]
    BY <1>2
  <2>4. ~ (i <= m) => i - m \in 1..n /\ st[i] = t[i - m]
    BY <1>2
  <2>5. ~ (j <= m) => j - m \in 1..n /\ st[j] = t[j - m]
    BY <1>2
  <2>6. \A a \in 1..m, b \in 1..n : s[a] # t[b]
    BY DEF m, n
  <2>7. CASE i <= m /\ j <= m
    BY <2>1, <2>2, <2>3, <2>7
  <2>8. CASE ~ (i <= m) /\ ~ (j <= m)
    <3>1. i - m = j - m
      BY <2>1, <2>4, <2>5, <2>8
    <3> QED
      BY <1>2, <3>1
  <2>9. CASE i <= m /\ ~ (j <= m)
    BY <2>2, <2>5, <2>6, <2>9
  <2>10. CASE ~ (i <= m) /\ j <= m
    BY <2>3, <2>4, <2>6, <2>10
  <2> QED
    BY <2>7, <2>8, <2>9, <2>10
<1>4. FieldsOf(st) = FieldsOf(s) \cup FieldsOf(t)
  <2> HIDE DEF st, m, n
  <2>1. ASSUME NEW i \in 1..(m + n) PROVE st[i].field \in FieldsOf(s) \cup FieldsOf(t)
    <3>1. i <= m => i \in 1..m /\ st[i] = s[i]
      BY <1>2
    <3>2. ~ (i <= m) => i - m \in 1..n /\ st[i] = t[i - m]
      BY <1>2
    <3> QED
      BY <3>1, <3>2 DEF FieldsOf, m, n
  <2>2. ASSUME NEW i \in 1..m PROVE s[i].field \in {st[k].field : k \in 1..(m + n)}
    <3>1. i \in 1..(m + n) /\ st[i] = s[i]
      BY <1>2
    <3> QED
      BY <3>1
  <2>3. ASSUME NEW i \in 1..n PROVE t[i].field \in {st[k].field : k \in 1..(m + n)}
    <3>1. i + m \in 1..(m + n) /\ ~ (i + m <= m) /\ (i + m) - m = i
      BY <1>2
    <3>2. st[i + m] = t[i]
      BY <1>2, <3>1
    <3> QED
      BY <3>1, <3>2
  <2>4. FieldsOf(st) = {st[k].field : k \in 1..(m + n)}
    BY <1>2 DEF FieldsOf
  <2>5. FieldsOf(s) = {s[k].field : k \in 1..m} /\ FieldsOf(t) = {t[k].field : k \in 1..n}
    BY DEF FieldsOf, m, n
  <2> QED
    BY <2>1, <2>2, <2>3, <2>4, <2>5
<1> QED
  BY <1>2, <1>3, <1>4 DEF ErrorsOf

LEMMA ErrorsOrNot ==
    ASSUME NEW s, NEW F, ErrorsOf(s, F)
    PROVE  s = <<>> <=> F = {}
<1>1. s \in Seq(FieldErrors) /\ F = {s[i].field : i \in 1..Len(s)}
  BY DEF ErrorsOf, FieldsOf
<1>2. Len(s) \in Nat /\ (s = <<>> <=> Len(s) = 0)
  BY <1>1, EmptySeq, LenProperties
<1>3. CASE s = <<>>
  BY <1>1, <1>2, <1>3
<1>4. CASE s # <<>>
  <2>1. 1 \in 1..Len(s)
    BY <1>2, <1>4
  <2> QED
    BY <1>1, <1>4, <2>1
<1> QED
  BY <1>3, <1>4

When(condition, field) == IF condition THEN {field} ELSE {}

LEMMA NameErrors ==
    ASSUME NEW field \in {"request_id", "sender"}, NEW s, NEW limit
    PROVE  ErrorsOf(PlainNameErrors(field, s, limit),
                    When(s = <<>> \/ Len(s) > limit \/ ~Over(s, Plain), field))
<1> DEFINE empty == [field |-> field, code |-> "empty"]
           range == [field |-> field, code |-> "range"]
           format == [field |-> field, code |-> "format"]
<1>1. empty \in FieldErrors /\ range \in FieldErrors /\ format \in FieldErrors /\ range # format
      /\ empty.field = field /\ range.field = field /\ format.field = field
  BY DEF FieldErrors
<1> HIDE DEF empty, range, format
<1>2. /\ ErrorsOf(<<empty>>, {field}) /\ ErrorsOf(<<range>>, {field}) /\ ErrorsOf(<<format>>, {field})
      /\ ErrorsOf(<<>>, {})
  BY <1>1, OneError, NoErrors
<1>3. ErrorsOf(<<range>> \o <<format>>, {field} \cup {field})
  <2>1. \A i \in 1..Len(<<range>>), j \in 1..Len(<<format>>) : <<range>>[i] # <<format>>[j]
    BY <1>1
  <2> QED
    BY <1>2, <2>1, BothErrors
<1>4. /\ <<range>> \in Seq(FieldErrors) /\ <<format>> \in Seq(FieldErrors)
      /\ <<range>> \o <<>> = <<range>> /\ <<>> \o <<format>> = <<format>> /\ <<>> \o <<>> = <<>>
  <2>1. <<range>> \in Seq(FieldErrors) /\ <<format>> \in Seq(FieldErrors) /\ <<>> \in Seq(FieldErrors)
    BY <1>1
  <2> QED
    BY <2>1, ConcatEmptySeq
<1>5. PlainNameErrors(field, s, limit) =
        IF s = <<>> THEN <<empty>>
        ELSE (IF Len(s) > limit THEN <<range>> ELSE <<>>) \o (IF ~Over(s, Plain) THEN <<format>> ELSE <<>>)
  BY DEF PlainNameErrors, If, empty, range, format
<1>6. CASE s = <<>>
  BY <1>2, <1>5, <1>6 DEF When
<1>7. CASE s # <<>> /\ Len(s) > limit /\ ~Over(s, Plain)
  <2>1. {field} \cup {field} = {field}
    OBVIOUS
  <2> QED
    BY <1>3, <1>5, <1>7, <2>1 DEF When
<1>8. CASE s # <<>> /\ Len(s) > limit /\ Over(s, Plain)
  BY <1>2, <1>4, <1>5, <1>8 DEF When
<1>9. CASE s # <<>> /\ ~ (Len(s) > limit) /\ ~Over(s, Plain)
  BY <1>2, <1>4, <1>5, <1>9 DEF When
<1>10. CASE s # <<>> /\ ~ (Len(s) > limit) /\ Over(s, Plain)
  BY <1>2, <1>4, <1>5, <1>10 DEF When
<1> QED
  BY <1>6, <1>7, <1>8, <1>9, <1>10

LEMMA ActionFaults ==
    ASSUME NEW s
    PROVE  ErrorsOf(ActionErrors(s), When(Len(s) > MaxActionLength \/ ~Requestable(s), "action"))
<1> DEFINE empty == [field |-> "action", code |-> "empty"]
           range == [field |-> "action", code |-> "range"]
           format == [field |-> "action", code |-> "format"]
<1>1. empty \in FieldErrors /\ range \in FieldErrors /\ format \in FieldErrors
      /\ empty.field = "action" /\ range.field = "action" /\ format.field = "action"
  BY DEF FieldErrors
<1>2. s = <<>> => ~Requestable(s)
  <2>1. Len(<<>>) = 0
    OBVIOUS
  <2> QED
    BY <2>1 DEF Requestable
<1> HIDE DEF empty, range, format
<1>3. /\ ErrorsOf(<<empty>>, {"action"}) /\ ErrorsOf(<<range>>, {"action"})
      /\ ErrorsOf(<<format>>, {"action"}) /\ ErrorsOf(<<>>, {})
  BY <1>1, OneError, NoErrors
<1>4. ActionErrors(s) =
        IF s = <<>> THEN <<empty>> ELSE IF Len(s) > MaxActionLength THEN <<range>>
        ELSE IF ~Requestable(s) THEN <<format>> ELSE <<>>
  BY DEF ActionErrors, If, empty, range, format
<1> QED
  BY <1>2, <1>3, <1>4 DEF When

LEMMA TimeFaults ==
    ASSUME NEW age \in Int
    PROVE  ErrorsOf(TimestampErrors(age), When(age \notin (-FutureDrift)..PastDrift, "timestamp"))
<1> DEFINE range == [field |-> "timestamp", code |-> "range"]
<1>1. range \in FieldErrors /\ range.field = "timestamp"
  BY DEF FieldErrors
<1>2. age \notin (-FutureDrift)..PastDrift <=> (age > PastDrift \/ age < -FutureDrift)
  BY ValidationAssumption DEF ValidationAssumption
<1> HIDE DEF range
<1>3. ErrorsOf(<<range>>, {"timestamp"}) /\ ErrorsOf(<<>>, {})
  BY <1>1, OneError, NoErrors
<1>4. TimestampErrors(age) = IF age > PastDrift \/ age < -FutureDrift THEN <<range>> ELSE <<>>
  BY DEF TimestampErrors, If, range
<1> QED
  BY <1>2, <1>3, <1>4 DEF When

\* Of fields that differ, no error is the same.
LEMMA OtherFields ==
    ASSUME NEW s, NEW t, NEW F, NEW G, ErrorsOf(s, F), ErrorsOf(t, G), F \cap G = {}
    PROVE  ErrorsOf(s \o t, F \cup G)
<1>1. \A i \in 1..Len(s) : s[i].field \in F
  BY DEF ErrorsOf, FieldsOf
<1>2. \A j \in 1..Len(t) : t[j].field \in G
  BY DEF ErrorsOf, FieldsOf
<1>3. \A i \in 1..Len(s), j \in 1..Len(t) : s[i] # t[j]
  BY <1>1, <1>2
<1> QED
  BY <1>3, BothErrors

\* The fields of a request that are wrong.
WrongFields(r) ==
    {f \in {"request_id", "sender", "action", "timestamp"} :
        CASE f = "request_id" -> r.id = <<>> \/ Len(r.id) > MaxIdLength \/ ~Over(r.id, Plain)
          [] f = "sender" -> r.sender = <<>> \/ Len(r.sender) > MaxSenderLength
                             \/ ~Over(r.sender, Plain)
          [] f = "action" -> Len(r.action) > MaxActionLength \/ ~Requestable(r.action)
          [] OTHER -> r.age \notin (-FutureDrift)..PastDrift}

LEMMA FormatFaults ==
    ASSUME NEW r, r.age \in Int
    PROVE  ErrorsOf(FormatErrors(r), WrongFields(r))
<1> DEFINE c1 == r.id = <<>> \/ Len(r.id) > MaxIdLength \/ ~Over(r.id, Plain)
           c2 == r.sender = <<>> \/ Len(r.sender) > MaxSenderLength \/ ~Over(r.sender, Plain)
           c3 == Len(r.action) > MaxActionLength \/ ~Requestable(r.action)
           c4 == r.age \notin (-FutureDrift)..PastDrift
           e1 == PlainNameErrors("request_id", r.id, MaxIdLength)
           e2 == PlainNameErrors("sender", r.sender, MaxSenderLength)
           e3 == ActionErrors(r.action)
           e4 == TimestampErrors(r.age)
           f1 == When(c1, "request_id")
           f2 == When(c2, "sender")
           f3 == When(c3, "action")
           f4 == When(c4, "timestamp")
<1>1. ErrorsOf(e1, f1) /\ ErrorsOf(e2, f2)
  BY NameErrors
<1>2. ErrorsOf(e3, f3)
  BY ActionFaults
<1>3. ErrorsOf(e4, f4)
  BY TimeFaults
<1>4. FormatErrors(r) = ((e1 \o e2) \o e3) \o e4
  <2>1. e1 \in Seq(FieldErrors) /\ e2 \in Seq(FieldErrors) /\ e3 \in Seq(FieldErrors) /\ e4 \in Seq(FieldErrors)
    BY <1>1, <1>2, <1>3 DEF ErrorsOf
  <2> QED
    BY DEF FormatErrors
<1>5. WrongFields(r) = f1 \cup f2 \cup f3 \cup f4
  <2> HIDE DEF c1, c2, c3, c4
  <2>1. WrongFields(r) = {f \in {"request_id", "sender", "action", "timestamp"} :
            CASE f = "request_id" -> c1 [] f = "sender" -> c2 [] f = "action" -> c3 [] OTHER -> c4}
    BY DEF WrongFields, c1, c2, c3, c4
  <2> QED
    BY <2>1 DEF When
<1>6. f1 \subseteq {"request_id"} /\ f2 \subseteq {"sender"} /\ f3 \subseteq {"action"} /\ f4 \subseteq {"timestamp"}
  BY DEF When
<1> HIDE DEF e1, e2, e3, e4, f1, f2, f3, f4
<1>7. ErrorsOf(e1 \o e2, f1 \cup f2)
  BY <1>1, <1>6, OtherFields
<1>8. ErrorsOf((e1 \o e2) \o e3, f1 \cup f2 \cup f3)
  BY <1>2, <1>6, <1>7, OtherFields
<1>9. ErrorsOf(((e1 \o e2) \o e3) \o e4, f1 \cup f2 \cup f3 \cup f4)
  BY <1>3, <1>6, <1>8, OtherFields
<1> QED
  BY <1>4, <1>5, <1>9

Gathers(f, q, owned, n) ==
    /\ f[0] = <<>>
    /\ \A k \in 1..n : f[k] = IF q[k] \in owned THEN f[k - 1] ELSE Append(f[k - 1], q[k])
    /\ PermissionErrors(q, owned) = f[n]

\* The permissions that lack are gathered entry by entry.
LEMMA LackingSteps ==
    ASSUME NEW P, NEW q \in Seq(P), NEW owned
    PROVE  \E f \in [0..Len(q) -> Seq(P)] : Gathers(f, q, owned, Len(q))
<1> DEFINE n == Len(q)
           Takes(v, p) == IF p \in owned THEN v ELSE Append(v, p)
           g == [x \in Seq(P) \X (1..n) |-> Takes(x[1], q[x[2]])]
           Body(it) == [s \in SUBSET (DOMAIN q) |->
                           IF s = {} THEN <<>> ELSE Takes(it[s \ {Max(s)}], q[Max(s)])]
           F == CHOOSE it : it = Body(it)
<1>1. n \in Nat /\ DOMAIN q = 1..n /\ \A k \in 1..n : q[k] \in P
  BY LenProperties
<1>2. PermissionErrors(q, owned) = F[DOMAIN q]
  BY DEF PermissionErrors, FoldLeft, MapThenFoldSet
<1>3. <<>> \in Seq(P)
  OBVIOUS
<1>4. ASSUME NEW v \in Seq(P), NEW i \in 1..n PROVE Takes(v, q[i]) \in Seq(P)
  BY <1>1
<1> HIDE DEF Takes
<1>5. g \in [Seq(P) \X (1..n) -> Seq(P)]
  BY <1>4
<1>6. PICK it \in [SUBSET (1..n) -> Seq(P)] : FoldOf(it, n, <<>>, g)
  <2> HIDE DEF g, n
  <2> QED
    BY <1>1, <1>3, <1>5, FoldExists
<1>7. \A s \in SUBSET (1..n) : s # {} =>
          /\ Max(s) \in 1..n
          /\ s \ {Max(s)} \in SUBSET (1..n)
  <2> SUFFICES ASSUME NEW s \in SUBSET (1..n), s # {}
               PROVE  Max(s) \in s
    OBVIOUS
  <2>1. s \in SUBSET (0..n)
    BY <1>1
  <2> HIDE DEF n
  <2> QED
    BY <1>1, <2>1, Greatest
<1>8. it = Body(it)
  <2>1. \A s \in SUBSET (1..n) : it[s] = IF s = {} THEN <<>> ELSE g[<<it[s \ {Max(s)}], Max(s)>>]
    BY <1>6 DEF FoldOf
  <2>2. ASSUME NEW s \in SUBSET (1..n), s # {}
        PROVE  g[<<it[s \ {Max(s)}], Max(s)>>] = Takes(it[s \ {Max(s)}], q[Max(s)])
    BY <1>6, <1>7, <2>2
  <2> HIDE DEF g
  <2> QED
    BY <1>1, <1>6, <2>1, <2>2
<1>9. F = Body(F)
  BY <1>8
<1>10. F[{}] = <<>>
  BY <1>1, <1>9
<1>11. ASSUME NEW k \in 1..n PROVE F[1..k] = Takes(F[1..(k - 1)], q[k])
  <2>1. 1..k \in SUBSET (1..n) /\ 1..k # {} /\ Max(1..k) = k /\ (1..k) \ {k} = 1..(k - 1)
    BY <1>1, Intervals
  <2>2. F[1..k] = Body(F)[1..k]
    BY <1>9
  <2>3. Body(F)[1..k] = Takes(F[(1..k) \ {Max(1..k)}], q[Max(1..k)])
    BY <1>1, <2>1
  <2> QED
    BY <2>1, <2>2, <2>3
<1>12. \A k \in 0..n : F[1..k] \in Seq(P)
  <2> DEFINE S == {k \in 0..n : F[1..k] \in Seq(P)}
  <2> HIDE DEF n, F
  <2>1. 0 \in S
    <3>1. 1..0 = {} /\ 0 \in 0..n
      BY <1>1
    <3> QED
      BY <1>3, <1>10, <3>1
  <2>2. ASSUME NEW k \in 0..(n - 1), k \in S PROVE k + 1 \in S
    <3>1. k + 1 \in 1..n /\ (k + 1) - 1 = k /\ k + 1 \in 0..n
      BY <1>1
    <3>2. F[1..(k + 1)] = Takes(F[1..k], q[k + 1])
      BY <1>11, <3>1
    <3> QED
      BY <1>4, <2>2, <3>1, <3>2
  <2> HIDE DEF S
  <2>3. \A k \in 0..n : k \in S
    BY <1>1, <2>1, <2>2, UpTo
  <2> QED
    BY <2>3 DEF S
<1> DEFINE f == [k \in 0..n |-> F[1..k]]
<1> HIDE DEF n, F
<1>13. f \in [0..n -> Seq(P)] /\ f[0] = <<>>
  BY <1>1, <1>10, <1>12
<1>14. \A k \in 1..n : f[k] = Takes(f[k - 1], q[k])
  BY <1>1, <1>11
<1>15. PermissionErrors(q, owned) = f[n]
  BY <1>1, <1>2
<1> HIDE DEF f
<1> QED
  BY <1>13, <1>14, <1>15 DEF n, Takes, Gathers

\* They are those of the list that are not owned.
LEMMA LackingAre ==
    ASSUME NEW P, NEW q \in Seq(P), NEW owned
    PROVE  /\ PermissionErrors(q, owned) \in Seq(P)
           /\ ToSet(PermissionErrors(q, owned)) = ToSet(q) \ owned
<1> DEFINE n == Len(q)
<1>1. n \in Nat /\ n \in 0..n /\ \A k \in 1..n : q[k] \in P
  BY LenProperties
<1>2. PICK f \in [0..n -> Seq(P)] :
          /\ f[0] = <<>>
          /\ \A k \in 1..n : f[k] = IF q[k] \in owned THEN f[k - 1] ELSE Append(f[k - 1], q[k])
          /\ PermissionErrors(q, owned) = f[n]
  <2> HIDE DEF n
  <2>1. \E f \in [0..Len(q) -> Seq(P)] : Gathers(f, q, owned, Len(q))
    BY ONLY q \in Seq(P), LackingSteps, Zenon
  <2>2. Len(q) = n
    BY DEF n
  <2>3. \E f \in [0..n -> Seq(P)] : Gathers(f, q, owned, n)
    BY ONLY <2>1, <2>2, Zenon
  <2> QED
    BY ONLY <2>3, Zenon DEF Gathers
<1> DEFINE upTo(k) == {q[i] : i \in 1..k}
           S == {k \in 0..n : ToSet(f[k]) = upTo(k) \ owned}
<1> HIDE DEF n
<1>3. 0 \in S
  <2>1. ToSet(<<>>) = {} /\ upTo(0) = {}
    BY DEF ToSet
  <2> QED
    BY <1>1, <1>2, <2>1
<1>4. ASSUME NEW k \in 0..(n - 1), k \in S PROVE k + 1 \in S
  <2>1. k + 1 \in 1..n /\ (k + 1) - 1 = k /\ k + 1 \in 0..n /\ k \in 0..n
    BY <1>1
  <2>2. f[k] \in Seq(P) /\ q[k + 1] \in P /\ ToSet(f[k]) = upTo(k) \ owned
    BY <1>1, <1>2, <1>4, <2>1
  <2>3. upTo(k + 1) = upTo(k) \cup {q[k + 1]}
    <3>1. 1..(k + 1) = (1..k) \cup {k + 1}
      BY <2>1
    <3> QED
      BY <3>1
  <2>4. ToSet(Append(f[k], q[k + 1])) = ToSet(f[k]) \cup {q[k + 1]}
    <3>1. ASSUME NEW s \in Seq(P), NEW e \in P PROVE ToSet(Append(s, e)) = ToSet(s) \cup {e}
      <4> DEFINE t == Append(s, e)
                 m == Len(s)
      <4>1. /\ t \in Seq(P) /\ m \in Nat /\ DOMAIN t = 1..(m + 1) /\ DOMAIN s = 1..m
            /\ t[m + 1] = e /\ \A i \in 1..m : t[i] = s[i]
        BY AppendProperties, LenProperties
      <4> HIDE DEF t, m
      <4>2. 1..(m + 1) = (1..m) \cup {m + 1}
        BY <4>1
      <4>3. ToSet(t) = {t[i] : i \in 1..(m + 1)} /\ ToSet(s) = {s[i] : i \in 1..m}
        BY <4>1 DEF ToSet
      <4>4. ToSet(t) = ToSet(s) \cup {e}
        BY <4>1, <4>2, <4>3
      <4> QED
        BY <4>4 DEF t
    <3> QED
      BY <2>2, <3>1
  <2>5. f[k + 1] = IF q[k + 1] \in owned THEN f[k] ELSE Append(f[k], q[k + 1])
    BY <1>2, <2>1
  <2> HIDE DEF upTo
  <2>6. ToSet(f[k + 1]) = upTo(k + 1) \ owned
    BY <2>2, <2>3, <2>4, <2>5
  <2> QED
    BY <2>1, <2>6
<1>5. \A k \in 0..n : k \in S
  <2> HIDE DEF S
  <2> QED
    BY <1>1, <1>3, <1>4, UpTo
<1>6. ToSet(f[n]) = upTo(n) \ owned
  BY <1>1, <1>5
<1>7. ToSet(q) = upTo(n)
  BY DEF ToSet, n
<1> QED
  BY <1>1, <1>2, <1>6, <1>7

--------------------------------------------------------------------------------
(* Names.                                                                  *)

\* What was looked at last was answered as it should.
SaidAsItIs ==
    /\ checked.what = "request" =>
          /\ checked.request.age \in Ages /\ checked.required \in RequiredLists
          /\ checked.said = ValidateRequest(checked.request, checked.required, checked.owned)
    /\ checked.what = "metadata" => checked.said = ParserErrors(checked.metadata)

ValidationInv == name \in Seq(Characters) /\ SaidAsItIs

LEMMA InitValidationInv == ValidationInit => ValidationInv
BY DEF ValidationInit, ValidationInv, SaidAsItIs

LEMMA NextValidationInv == ValidationInv /\ [ValidationNext]_validationVars => ValidationInv'
<1> SUFFICES ASSUME ValidationInv, [ValidationNext]_validationVars PROVE ValidationInv'
  OBVIOUS
<1> USE DEF ValidationInv
<1>1. ASSUME NEW c \in Characters, Type(c) PROVE ValidationInv'
  <2>1. name' = Append(name, c) /\ checked' = checked
    BY <1>1 DEF Type
  <2>2. name' \in Seq(Characters)
    BY <2>1
  <2> QED
    BY <2>1, <2>2 DEF SaidAsItIs
<1>2. CASE CheckRequest
  <2>1. PICK id, s, a \in SampleNames, age \in Ages, required \in RequiredLists, owned \in OwnedSets :
          checked' = [what |-> "request",
                      request |-> [id |-> id, sender |-> s, action |-> a, age |-> age],
                      required |-> required, owned |-> owned,
                      said |-> ValidateRequest([id |-> id, sender |-> s, action |-> a, age |-> age],
                                               required, owned)]
    BY <1>2 DEF CheckRequest
  <2> DEFINE r == [id |-> id, sender |-> s, action |-> a, age |-> age]
  <2>2. r.age \in Ages
    OBVIOUS
  <2> HIDE DEF r
  <2>3. checked' = [what |-> "request", request |-> r, required |-> required, owned |-> owned,
                    said |-> ValidateRequest(r, required, owned)]
    BY <2>1 DEF r
  <2>4. /\ checked'.what = "request" /\ checked'.request = r /\ checked'.required = required
        /\ checked'.owned = owned /\ checked'.said = ValidateRequest(r, required, owned)
    BY <2>3
  <2>5. SaidAsItIs'
    BY <2>2, <2>4 DEF SaidAsItIs
  <2> QED
    BY <1>2, <2>5 DEF CheckRequest
<1>3. CASE CheckMetadata
  <2>1. PICK md : checked' = [what |-> "metadata", metadata |-> md, said |-> ParserErrors(md)]
    BY <1>3 DEF CheckMetadata
  <2>2. checked'.what = "metadata" /\ checked'.metadata = md /\ checked'.said = ParserErrors(md)
    BY <2>1
  <2>3. SaidAsItIs'
    BY <2>2 DEF SaidAsItIs
  <2> QED
    BY <1>3, <2>3 DEF CheckMetadata
<1>4. CASE UNCHANGED validationVars
  BY <1>4 DEF validationVars, SaidAsItIs
<1> QED
  BY <1>1, <1>2, <1>3, <1>4 DEF ValidationNext

\* The requests: what was said names what is wrong.
LEMMA FaultsNamed == ValidationInv => EveryFaultNamed
<1> SUFFICES ASSUME ValidationInv, checked.what = "request" PROVE EveryFaultNamed
  BY DEF EveryFaultNamed
<1> DEFINE r == checked.request
           required == checked.required
           owned == checked.owned
           said == checked.said
<1>1. r.age \in Int /\ required \in Seq(ToSet(required)) /\ said = ValidateRequest(r, required, owned)
  BY ValidationAssumption DEF ValidationAssumption, ValidationInv, SaidAsItIs
<1> SUFFICES CASE said.kind = "invalid" ->
                    /\ WrongFields(r) # {} /\ FieldsOf(said.errors) = WrongFields(r)
                    /\ IsInjective(said.errors)
              [] said.kind = "denied" ->
                    /\ WrongFields(r) = {}
                    /\ ToSet(said.errors) = ToSet(required) \ owned
              [] OTHER -> WrongFields(r) = {} /\ ToSet(required) \subseteq owned
  BY Zenon DEF EveryFaultNamed, WrongFields, FieldsOf
<1> HIDE DEF r, required, owned, said
<1>2. ErrorsOf(FormatErrors(r), WrongFields(r))
  BY <1>1, FormatFaults
<1>3. FormatErrors(r) = <<>> <=> WrongFields(r) = {}
  BY <1>2, ErrorsOrNot
<1>4. /\ PermissionErrors(required, owned) \in Seq(ToSet(required))
      /\ ToSet(PermissionErrors(required, owned)) = ToSet(required) \ owned
  BY <1>1, LackingAre
<1>5. CASE FormatErrors(r) # <<>>
  <2>1. said = [kind |-> "invalid", errors |-> FormatErrors(r)]
    BY <1>1, <1>5 DEF ValidateRequest
  <2>2. said.kind = "invalid" /\ said.errors = FormatErrors(r)
    BY <2>1
  <2> QED
    BY <1>2, <1>3, <1>5, <2>2 DEF ErrorsOf
<1>6. CASE FormatErrors(r) = <<>> /\ PermissionErrors(required, owned) # <<>>
  <2>1. said = [kind |-> "denied", errors |-> PermissionErrors(required, owned)]
    BY <1>1, <1>6 DEF ValidateRequest
  <2>2. said.kind = "denied" /\ said.errors = PermissionErrors(required, owned)
    BY <2>1
  <2> QED
    BY <1>3, <1>4, <1>6, <2>2
<1>7. CASE FormatErrors(r) = <<>> /\ PermissionErrors(required, owned) = <<>>
  <2>1. said = [kind |-> "ok", errors |-> <<>>]
    BY <1>1, <1>7 DEF ValidateRequest
  <2>2. said.kind = "ok" /\ ToSet(<<>>) = {}
    BY <2>1 DEF ToSet
  <2>3. ToSet(required) \subseteq owned
    BY <1>4, <1>7, <2>2
  <2> QED
    BY <1>3, <1>7, <2>2, <2>3
<1> QED
  BY <1>5, <1>6, <1>7

\* The metadata.
LEMMA StricterParser == ValidationInv => ParserIsStricter
<1> SUFFICES ASSUME ValidationInv, checked.what = "metadata", checked.said = <<>>
             PROVE  MetadataErrors(checked.metadata) = <<>>
  BY DEF ParserIsStricter
<1> DEFINE md == checked.metadata
<1>1. ParserErrors(md) = <<>>
  BY DEF ValidationInv, SaidAsItIs
<1> HIDE DEF md
<1>2. \A c, e : If(c, e) = (IF c THEN <<e>> ELSE <<>>)
  BY DEF If
<1>3. IsModuleId(md.id) /\ md.title # <<>> /\ md.version = "parses" /\ md.entry # <<>> /\ md.needs = "parses"
  <2> DEFINE s1 == If(~IsModuleId(md.id), "id")
             s2 == If(md.title = <<>>, "name")
             s3 == VersionErrors(md.version, "version")
             s4 == If(md.entry = <<>>, "entry")
             s5 == If(md.needsId = <<>>, "dependency id")
             s6 == VersionErrors(md.needs, "dependency")
             s7 == If(~IsPermission(md.requested), "permission")
             s8 == If(md.minCore = "garbled", "min core")
             s9 == If(~Declarable(md.provides), "provides")
             Texts1 == {"id", "name", "version", "entry", "dependency id", "dependency", "permission",
                        "min core", "provides"}
  <2>1. /\ s1 \in Seq(Texts1) /\ s2 \in Seq(Texts1) /\ s3 \in Seq(Texts1) /\ s4 \in Seq(Texts1)
        /\ s5 \in Seq(Texts1) /\ s6 \in Seq(Texts1) /\ s7 \in Seq(Texts1) /\ s8 \in Seq(Texts1)
        /\ s9 \in Seq(Texts1)
    <3>1. /\ "id" \in Texts1 /\ "name" \in Texts1 /\ "version" \in Texts1 /\ "entry" \in Texts1
          /\ "dependency id" \in Texts1 /\ "dependency" \in Texts1 /\ "permission" \in Texts1
          /\ "min core" \in Texts1 /\ "provides" \in Texts1
      OBVIOUS
    <3> HIDE DEF Texts1
    <3>2. ASSUME NEW e \in Texts1, NEW c PROVE If(c, e) \in Seq(Texts1)
      <4>1. <<>> \in Seq(Texts1) /\ <<e>> \in Seq(Texts1)
        OBVIOUS
      <4> QED
        BY <4>1, Zenon DEF If
    <3> QED
      BY <3>1, <3>2, Zenon DEF VersionErrors
  <2>2. ParserErrors(md) = s1 \o s2 \o s3 \o s4 \o s5 \o s6 \o s7 \o s8 \o s9
    BY DEF ParserErrors
  <2> HIDE DEF s1, s2, s3, s4, s5, s6, s7, s8, s9, Texts1
  <2>3. ASSUME NEW s \in Seq(Texts1), NEW t \in Seq(Texts1)
        PROVE  s \o t \in Seq(Texts1) /\ (s \o t = <<>> => s = <<>> /\ t = <<>>)
    BY ConcatProperties, ConcatEqualIffEmpty
  <2> DEFINE t2 == s1 \o s2
             t3 == t2 \o s3
             t4 == t3 \o s4
             t5 == t4 \o s5
             t6 == t5 \o s6
             t7 == t6 \o s7
             t8 == t7 \o s8
             t9 == t8 \o s9
  <2>4. t2 \in Seq(Texts1) /\ (t2 = <<>> => s1 = <<>> /\ s2 = <<>>)
    BY <2>1, <2>3
  <2>5. t9 = <<>>
    BY <1>1, <2>2
  <2> HIDE DEF t2
  <2>6. t3 \in Seq(Texts1) /\ (t3 = <<>> => t2 = <<>> /\ s3 = <<>>)
    BY <2>1, <2>3, <2>4
  <2> HIDE DEF t3
  <2>7. t4 \in Seq(Texts1) /\ (t4 = <<>> => t3 = <<>> /\ s4 = <<>>)
    BY <2>1, <2>3, <2>6
  <2> HIDE DEF t4
  <2>8. t5 \in Seq(Texts1) /\ (t5 = <<>> => t4 = <<>> /\ s5 = <<>>)
    BY <2>1, <2>3, <2>7
  <2> HIDE DEF t5
  <2>9. t6 \in Seq(Texts1) /\ (t6 = <<>> => t5 = <<>> /\ s6 = <<>>)
    BY <2>1, <2>3, <2>8
  <2> HIDE DEF t6
  <2>10. t7 \in Seq(Texts1) /\ (t7 = <<>> => t6 = <<>>)
    BY <2>1, <2>3, <2>9
  <2> HIDE DEF t7
  <2>11. t8 \in Seq(Texts1) /\ (t8 = <<>> => t7 = <<>>)
    BY <2>1, <2>3, <2>10
  <2> HIDE DEF t8
  <2>12. t8 = <<>>
    BY <2>1, <2>3, <2>5, <2>11
  <2>13. s1 = <<>> /\ s2 = <<>> /\ s3 = <<>> /\ s4 = <<>> /\ s6 = <<>>
    BY <2>4, <2>6, <2>7, <2>8, <2>9, <2>10, <2>11, <2>12
  <2> QED
    BY <2>13 DEF s1, s2, s3, s4, s6, If, VersionErrors
<1>4. md.id # <<>>
  BY <1>3 DEF IsModuleId, Word
<1>5. MetadataErrors(md) = <<>> \o <<>> \o <<>> \o <<>> \o <<>>
  BY <1>3, <1>4 DEF MetadataErrors, If, VersionErrors
<1> QED
  BY <1>5 DEF md

LEMMA ModulesSend == ModulesMaySend
<1> SUFFICES ASSUME IsModuleId(name), NEW i \in 1..Len(PlainNameErrors("sender", name, MaxSenderLength))
             PROVE  PlainNameErrors("sender", name, MaxSenderLength)[i].code = "range"
  BY DEF ModulesMaySend
<1>1. name # <<>> /\ Over(name, Plain)
  BY DEF IsModuleId, Word, Over, Plain, Letters
<1> DEFINE range == [field |-> "sender", code |-> "range"]
           errors == PlainNameErrors("sender", name, MaxSenderLength)
<1>2. errors = (IF Len(name) > MaxSenderLength THEN <<range>> ELSE <<>>) \o <<>>
  BY <1>1 DEF PlainNameErrors, If
<1> HIDE DEF range
<1>3. <<range>> \o <<>> = <<range>> /\ <<>> \o <<>> = <<>>
  <2>1. <<range>> \in Seq({range}) /\ <<>> \in Seq({range})
    OBVIOUS
  <2> QED
    BY <2>1, ConcatEmptySeq
<1>4. errors = <<range>> \/ errors = <<>>
  BY <1>2, <1>3
<1>5. i \in 1..Len(errors)
  OBVIOUS
<1> HIDE DEF errors
<1>6. errors # <<>>
  BY <1>5
<1>7. i = 1 /\ errors[1] = range
  BY <1>4, <1>5, <1>6
<1> QED
  BY <1>7 DEF range, errors

LEMMA OwnPatternKeeps == FilterOfOwnPatternKeepsAll
BY DEF FilterOfOwnPatternKeepsAll, BusMatches, FilterMatches

\* The sub-sequences that the grammars look at.
LEMMA PartOf ==
    ASSUME NEW s \in Seq(Characters), NEW m \in 1..Len(s) + 1, NEW n \in 0..Len(s)
    PROVE  LET part == SubSeq(s, m, n)
           IN  /\ part \in Seq(Characters)
               /\ Len(part) = IF m <= n THEN n - m + 1 ELSE 0
               /\ \A i \in 1..(n - m + 1) : part[i] = s[m + i - 1]
               /\ \A allowed : Over(part, allowed) <=> \A i \in m..n : s[i] \in allowed
<1> DEFINE part == SubSeq(s, m, n)
<1>1. Len(s) \in Nat /\ \A i \in m..n : s[i] \in Characters
  BY LenProperties
<1>2. /\ part \in Seq(Characters)
      /\ Len(part) = IF m <= n THEN n - m + 1 ELSE 0
      /\ \A i \in 1..(n - m + 1) : part[i] = s[m + i - 1]
  BY <1>1, SubSeqProperties
<1> HIDE DEF part
<1>3. ASSUME NEW allowed PROVE Over(part, allowed) <=> \A i \in m..n : s[i] \in allowed
  <2>1. 1..Len(part) = 1..(n - m + 1)
    BY <1>1, <1>2
  <2>2. ASSUME \A i \in 1..(n - m + 1) : part[i] \in allowed, NEW i \in m..n PROVE s[i] \in allowed
    <3>1. i - m + 1 \in 1..(n - m + 1) /\ m + (i - m + 1) - 1 = i
      BY <1>1
    <3> QED
      BY <1>2, <2>2, <3>1
  <2>3. ASSUME \A i \in m..n : s[i] \in allowed, NEW i \in 1..(n - m + 1) PROVE part[i] \in allowed
    <3>1. m + i - 1 \in m..n
      BY <1>1
    <3> QED
      BY <1>2, <2>3, <3>1
  <2> QED
    BY <2>1, <2>2, <2>3 DEF Over
<1> QED
  BY <1>2, <1>3 DEF part

\* A name of two parts, neither with a dot.
OneDot(s, d) ==
    /\ d \in 1..Len(s) /\ s[d] = "."
    /\ \A i \in 1..(d - 1) : s[i] # "."
    /\ \A i \in (d + 1)..Len(s) : s[i] # "."

LEMMA OneDotIs ==
    ASSUME NEW s \in Seq(Characters), NEW d, OneDot(s, d)
    PROVE  /\ Dots(s) = {d} /\ PartStarts(s) = {0, d} /\ d # 0
           /\ PartAfter(s, 0) = SubSeq(s, 1, d - 1)
           /\ PartAfter(s, d) = SubSeq(s, d + 1, Len(s))
<1>1. Len(s) \in Nat /\ d \in 1..Len(s)
  BY LenProperties DEF OneDot
<1>2. \A e \in 1..Len(s) : e = d \/ e \in 1..(d - 1) \/ e \in (d + 1)..Len(s)
  BY <1>1
<1>3. Dots(s) = {d}
  BY <1>1, <1>2 DEF Dots, OneDot
<1>4. PartAfter(s, 0) = SubSeq(s, 1, d - 1)
  <2>1. {e \in Dots(s) : e > 0} = {d} /\ {d} # {}
    BY <1>1, <1>3
  <2>2. (CHOOSE e \in {d} : \A f \in {d} : e <= f) = d
    BY <1>1
  <2>3. 0 + 1 = 1
    OBVIOUS
  <2> QED
    BY <2>1, <2>2, <2>3 DEF PartAfter
<1>5. PartAfter(s, d) = SubSeq(s, d + 1, Len(s))
  <2>1. {e \in Dots(s) : e > d} = {}
    BY <1>1, <1>3
  <2> QED
    BY <2>1 DEF PartAfter
<1> QED
  BY <1>1, <1>3, <1>4, <1>5 DEF PartStarts

Before(s, d) == SubSeq(s, 1, d - 1)
After(s, d) == SubSeq(s, d + 1, Len(s))

LEMMA PartsAre ==
    ASSUME NEW s \in Seq(Characters), NEW d \in 1..Len(s)
    PROVE  /\ Before(s, d) \in Seq(Characters) /\ After(s, d) \in Seq(Characters)
           /\ Len(Before(s, d)) = d - 1 /\ Len(After(s, d)) = Len(s) - d
           /\ \A i \in 1..(d - 1) : Before(s, d)[i] = s[i]
           /\ \A i \in 1..(Len(s) - d) : After(s, d)[i] = s[d + i]
           /\ \A allowed : Over(Before(s, d), allowed) <=> \A i \in 1..(d - 1) : s[i] \in allowed
           /\ \A allowed : Over(After(s, d), allowed) <=> \A i \in (d + 1)..Len(s) : s[i] \in allowed
<1>1. /\ Len(s) \in Nat /\ d \in 1..Len(s) /\ d - 1 \in 0..Len(s) /\ d + 1 \in 1..(Len(s) + 1)
      /\ 1 \in 1..(Len(s) + 1) /\ Len(s) \in 0..Len(s)
  BY LenProperties
<1>2. /\ Before(s, d) \in Seq(Characters)
      /\ Len(Before(s, d)) = IF 1 <= d - 1 THEN (d - 1) - 1 + 1 ELSE 0
      /\ \A i \in 1..((d - 1) - 1 + 1) : Before(s, d)[i] = s[1 + i - 1]
      /\ \A allowed : Over(Before(s, d), allowed) <=> \A i \in 1..(d - 1) : s[i] \in allowed
  BY <1>1, PartOf, Zenon DEF Before
<1>3. /\ After(s, d) \in Seq(Characters)
      /\ Len(After(s, d)) = IF d + 1 <= Len(s) THEN Len(s) - (d + 1) + 1 ELSE 0
      /\ \A i \in 1..(Len(s) - (d + 1) + 1) : After(s, d)[i] = s[(d + 1) + i - 1]
      /\ \A allowed : Over(After(s, d), allowed) <=> \A i \in (d + 1)..Len(s) : s[i] \in allowed
  BY <1>1, PartOf, Zenon DEF After
<1>4. Len(Before(s, d)) = d - 1 /\ Len(After(s, d)) = Len(s) - d
  BY <1>1, <1>2, <1>3
<1>5. \A i \in 1..(d - 1) : Before(s, d)[i] = s[i]
  <2>1. \A i \in 1..(d - 1) : i \in 1..((d - 1) - 1 + 1) /\ 1 + i - 1 = i
    BY <1>1
  <2> QED
    BY <1>2, <2>1
<1>6. \A i \in 1..(Len(s) - d) : After(s, d)[i] = s[d + i]
  <2>1. \A i \in 1..(Len(s) - d) : i \in 1..(Len(s) - (d + 1) + 1) /\ (d + 1) + i - 1 = d + i
    BY <1>1
  <2> QED
    BY <1>3, <2>1
<1> QED
  BY <1>2, <1>3, <1>4, <1>5, <1>6, Zenon

\* What a request may name has one dot.
LEMMA RequestedHasOneDot ==
    ASSUME NEW s \in Seq(Characters), NEW d \in 1..Len(s), s[d] = ".",
           NEW before \in SUBSET (Plain \ {"."}), NEW after \in SUBSET (Plain \ {"."}),
           Over(Before(s, d), before), Over(After(s, d), after)
    PROVE  OneDot(s, d)
<1>1. (\A i \in 1..(d - 1) : s[i] \in before) /\ (\A i \in (d + 1)..Len(s) : s[i] \in after)
  BY PartsAre
<1> QED
  BY <1>1 DEF OneDot

LEMMA JoinedAgain ==
    ASSUME NEW s \in Seq(Characters), NEW d \in 1..Len(s), s[d] = "."
    PROVE  s = Before(s, d) \o <<".">> \o After(s, d)
<1>1. /\ Len(s) \in Nat /\ 1 \in 1..Len(s) + 1 /\ d - 1 \in (1 - 1)..Len(s) /\ d \in (d - 1)..Len(s)
      /\ d \in (1 - 1)..Len(s) /\ Len(s) \in d..Len(s) /\ (d - 1) + 1 = d /\ d \in d..Len(s)
      /\ d + 1 \in Int /\ d \in Int /\ d < d + 1
  BY LenProperties
<1>2. SubSeq(s, d, d) = <<".">>
  <2>1. SubSeq(s, d, d) = <<s[d]>> \o SubSeq(s, d + 1, d)
    BY <1>1, SubSeqRecursiveFirst
  <2>2. SubSeq(s, d + 1, d) = <<>>
    BY <1>1, SubSeqEmpty
  <2>3. <<s[d]>> \in Seq(Characters)
    BY ElementOfSeq
  <2>4. <<s[d]>> \o <<>> = <<s[d]>>
    BY <2>3, ConcatEmptySeq
  <2> QED
    BY <2>1, <2>2, <2>4
<1>3. SubSeq(s, 1, d - 1) \o SubSeq(s, (d - 1) + 1, d) = SubSeq(s, 1, d)
  BY <1>1, ConcatAdjacentSubSeq
<1>4. SubSeq(s, 1, d) \o SubSeq(s, d + 1, Len(s)) = SubSeq(s, 1, Len(s))
  BY <1>1, ConcatAdjacentSubSeq
<1>5. SubSeq(s, 1, Len(s)) = s
  BY SubSeqFull
<1> QED
  BY <1>1, <1>2, <1>3, <1>4, <1>5 DEF Before, After

LEMMA SplitOnce == name \in Seq(Characters) => ActionsSplitOnce
<1> SUFFICES ASSUME name \in Seq(Characters), Requestable(name)
             PROVE  LET parts == ParseAction(name) IN
                    /\ Cardinality(Dots(name)) = 1
                    /\ parts[1] # <<>> /\ parts[2] # <<>>
                    /\ name = parts[1] \o <<".">> \o parts[2]
  BY DEF ActionsSplitOnce
<1>1. PICK d \in 1..Len(name) :
          /\ name[d] = "."
          /\ Word(Before(name, d), Lower, Lower \cup Digits \cup {"-"})
          /\ Word(After(name, d), Lower, Lower \cup Digits \cup {"_"})
  BY DEF Requestable, Before, After
<1>2. OneDot(name, d)
  <2>1. Lower \cup Digits \cup {"-"} \in SUBSET (Plain \ {"."}) /\ Lower \cup Digits \cup {"_"} \in SUBSET (Plain \ {"."})
    BY DEF Plain, Lower, Upper, Digits
  <2>2. Over(Before(name, d), Lower \cup Digits \cup {"-"}) /\ Over(After(name, d), Lower \cup Digits \cup {"_"})
    BY <1>1 DEF Word
  <2> QED
    BY <1>1, <2>1, <2>2, RequestedHasOneDot
<1>3. Dots(name) = {d}
  BY <1>2, OneDotIs
<1>4. Cardinality(Dots(name)) = 1
  BY <1>3, FS_Singleton
<1>5. (CHOOSE e \in 1..Len(name) : name[e] = "." /\ \A f \in 1..(e - 1) : name[f] # ".") = d
  <2>1. d \in 1..Len(name) /\ name[d] = "." /\ \A f \in 1..(d - 1) : name[f] # "."
    BY <1>2 DEF OneDot
  <2>2. \A e \in 1..Len(name) : name[e] = "." => e \in Dots(name)
    BY DEF Dots
  <2>3. \A e \in 1..Len(name) : name[e] = "." => e = d
    BY <1>3, <2>2
  <2> QED
    BY <2>1, <2>3
<1>6. ParseAction(name) = <<Before(name, d), After(name, d)>>
  BY <1>5, Zenon DEF ParseAction, Before, After
<1>7. Before(name, d) # <<>> /\ After(name, d) # <<>>
  BY <1>1 DEF Word
<1>8. name = Before(name, d) \o <<".">> \o After(name, d)
  BY <1>1, JoinedAgain
<1> QED
  BY <1>4, <1>6, <1>7, <1>8

LEMMA Callable == name \in Seq(Characters) => CallableInBoth
<1> SUFFICES ASSUME name \in Seq(Characters) PROVE CallableInBoth
  OBVIOUS
<1> DEFINE Strict(d) == /\ name[d] = "."
                        /\ Word(Before(name, d), Lower, Lower \cup Digits)
                        /\ Word(After(name, d), Lower, Lower \cup Digits \cup {"_"})
<1>1. ASSUME Requestable(name), Declarable(name) PROVE \E d \in 1..Len(name) : Strict(d)
  <2>1. PICK d \in 1..Len(name) :
            /\ name[d] = "."
            /\ Word(Before(name, d), Lower, Lower \cup Digits \cup {"-"})
            /\ Word(After(name, d), Lower, Lower \cup Digits \cup {"_"})
    BY <1>1 DEF Requestable, Before, After
  <2>2. OneDot(name, d)
    <3>1. Lower \cup Digits \cup {"-"} \in SUBSET (Plain \ {"."}) /\ Lower \cup Digits \cup {"_"} \in SUBSET (Plain \ {"."})
      BY DEF Plain, Lower, Upper, Digits
    <3>2. Over(Before(name, d), Lower \cup Digits \cup {"-"}) /\ Over(After(name, d), Lower \cup Digits \cup {"_"})
      BY <2>1 DEF Word
    <3> QED
      BY <2>1, <3>1, <3>2, RequestedHasOneDot
  <2>3. PartStarts(name) = {0, d} /\ PartAfter(name, 0) = Before(name, d)
    BY <2>2, OneDotIs DEF Before
  <2>4. Identifier(Before(name, d))
    BY <1>1, <2>3 DEF Declarable
  <2>5. Over(Before(name, d), Letters \cup Digits \cup {"_"})
        /\ Over(Before(name, d), Lower \cup Digits \cup {"-"})
    BY <2>1, <2>4 DEF Identifier, Word
  <2>6. (Letters \cup Digits \cup {"_"}) \cap (Lower \cup Digits \cup {"-"}) = Lower \cup Digits
    BY DEF Letters, Lower, Upper, Digits
  <2>7. Over(Before(name, d), Lower \cup Digits)
    BY <2>5, <2>6 DEF Over
  <2> QED
    BY <2>1, <2>7 DEF Word
<1>2. ASSUME NEW d \in 1..Len(name), Strict(d) PROVE Requestable(name) /\ Declarable(name)
  <2>1. Lower \cup Digits \in SUBSET (Plain \ {"."}) /\ Lower \cup Digits \cup {"_"} \in SUBSET (Plain \ {"."})
    BY DEF Plain, Lower, Upper, Digits
  <2>2. OneDot(name, d)
    BY <1>2, <2>1, RequestedHasOneDot DEF Word
  <2>3. PartStarts(name) = {0, d} /\ PartAfter(name, 0) = Before(name, d) /\ PartAfter(name, d) = After(name, d)
    BY <2>2, OneDotIs DEF Before, After
  <2>4. Identifier(Before(name, d)) /\ Identifier(After(name, d))
    BY <1>2 DEF Identifier, Word, Over, Letters
  <2>5. name # <<>>
    BY EmptySeq
  <2>6. Declarable(name)
    BY <2>3, <2>4, <2>5 DEF Declarable
  <2>7. Word(Before(name, d), Lower, Lower \cup Digits \cup {"-"})
    BY <1>2 DEF Word, Over
  <2>8. Requestable(name)
    BY <1>2, <2>7 DEF Requestable, Before, After
  <2> QED
    BY <2>6, <2>8
<1>3. (\E d \in 1..Len(name) : Strict(d)) <=> (Requestable(name) /\ Declarable(name))
  <2> HIDE DEF Strict
  <2> QED
    BY <1>1, <1>2
<1> QED
  BY <1>3, Zenon DEF CallableInBoth, Before, After

\* However long the names that are typed, and whatever the requests and the metadata: an action
\* that the validator lets through is split at its only dot, what a module may declare and a
\* request may name is what both grammars say, a module may send under its own id unless it is
\* too long, a filter keeps nothing back of its own pattern, the errors said of a request name
\* each field that is wrong and each permission that lacks and no other, and the parser is
\* stricter than the metadata's own check.
THEOREM GrammarsAlwaysAgree == ValidationSpec => []GrammarsAgree
<1>1. ValidationInv => GrammarsAgree
  BY SplitOnce, Callable, ModulesSend, OwnPatternKeeps, FaultsNamed, StricterParser
     DEF ValidationInv, GrammarsAgree
<1> QED
  BY InitValidationInv, NextValidationInv, <1>1, PTL DEF ValidationSpec

--------------------------------------------------------------------------------
(* The counters and the samples.                                           *)
Records == {Adds(r) : r \in Results}
Tallies == [Counters -> Nat]

LEMMA RecordIs ==
    ASSUME NEW a \in Records
    PROVE  /\ a \in [Counted -> Nat] /\ a.total = 1 /\ a.ok \in {0, 1} /\ a.failed = 1 - a.ok
           /\ a.timeouts \in {0, 1} /\ a.sum \in Nat /\ a.sum < U64Max /\ U64Max \in Nat
<1>1. PICK r \in Results : a = Adds(r)
  BY DEF Records
<1>2. r.latency \in 0..U64Max - 1 /\ U64Max \in Nat
  BY LatencyStatsAssumption DEF LatencyStatsAssumption
<1> QED
  BY <1>1, <1>2 DEF Adds, Counted

LEMMA ZeroIs == Zero \in Tallies /\ U64Max \in Nat
BY LatencyStatsAssumption DEF LatencyStatsAssumption, Zero, Tallies

LEMMA CountOneIs ==
    ASSUME NEW n \in Tallies, NEW a \in Records
    PROVE  /\ CountOne(n, a) \in Tallies
           /\ CountOne(n, a)["min"] = IF a.sum < n["min"] THEN a.sum ELSE n["min"]
           /\ CountOne(n, a)["max"] = IF a.sum > n["max"] THEN a.sum ELSE n["max"]
           /\ \A c \in Counted : CountOne(n, a)[c] = n[c] + a[c]
<1>1. a \in [Counted -> Nat]
  BY RecordIs
<1>2. "sum" \in Counted /\ "min" \in Counters /\ "max" \in Counters /\ Counted \subseteq Counters
      /\ "min" \notin Counted /\ "max" \notin Counted
      /\ \A c \in Counters : c = "min" \/ c = "max" \/ c \in Counted
  BY DEF Counted, Counters
<1>3. \A c \in Counters :
        CountOne(n, a)[c] = CASE c = "min" -> IF a.sum < n[c] THEN a.sum ELSE n[c]
                             [] c = "max" -> IF a.sum > n[c] THEN a.sum ELSE n[c]
                             [] OTHER -> n[c] + a[c]
  BY DEF CountOne
<1>4. a.sum \in Nat
  BY <1>1, <1>2
<1>5. /\ CountOne(n, a)["min"] = IF a.sum < n["min"] THEN a.sum ELSE n["min"]
      /\ CountOne(n, a)["max"] = IF a.sum > n["max"] THEN a.sum ELSE n["max"]
      /\ \A c \in Counted : CountOne(n, a)[c] = n[c] + a[c]
  BY <1>2, <1>3
<1>6. \A c \in Counters : CountOne(n, a)[c] \in Nat
  BY <1>1, <1>2, <1>4, <1>5 DEF Tallies
<1>7. CountOne(n, a) = [c \in Counters |-> CountOne(n, a)[c]]
  BY DEF CountOne
<1> QED
  BY <1>5, <1>6, <1>7 DEF Tallies

\* The counts of a sequence of records are those of its beginnings, one after the other.
Adding(f, q, n) ==
    /\ f[0] = Zero /\ Counts(q) = f[n]
    /\ \A k \in 1..n : f[k] = CountOne(f[k - 1], q[k])

LEMMA CountsSteps ==
    ASSUME NEW q \in Seq(Records)
    PROVE  \E f \in [0..Len(q) -> Tallies] : Adding(f, q, Len(q))
<1> DEFINE n == Len(q)
           g == [x \in Tallies \X (1..n) |-> CountOne(x[1], q[x[2]])]
           Body(it) == [s \in SUBSET (DOMAIN q) |->
                           IF s = {} THEN Zero ELSE CountOne(it[s \ {Max(s)}], q[Max(s)])]
           F == CHOOSE it : it = Body(it)
<1>1. n \in Nat /\ DOMAIN q = 1..n /\ \A k \in 1..n : q[k] \in Records
  BY LenProperties
<1>2. Counts(q) = F[DOMAIN q]
  BY DEF Counts, FoldLeft, MapThenFoldSet
<1>3. Zero \in Tallies
  BY ZeroIs
<1>4. ASSUME NEW v \in Tallies, NEW i \in 1..n PROVE CountOne(v, q[i]) \in Tallies
  BY <1>1, CountOneIs
<1>5. g \in [Tallies \X (1..n) -> Tallies]
  BY <1>4
<1>6. PICK it \in [SUBSET (1..n) -> Tallies] : FoldOf(it, n, Zero, g)
  <2> HIDE DEF g, n
  <2> QED
    BY <1>1, <1>3, <1>5, FoldExists
<1>7. \A s \in SUBSET (1..n) : s # {} =>
          /\ Max(s) \in 1..n
          /\ s \ {Max(s)} \in SUBSET (1..n)
  <2> SUFFICES ASSUME NEW s \in SUBSET (1..n), s # {}
               PROVE  Max(s) \in s
    OBVIOUS
  <2>1. s \in SUBSET (0..n)
    BY <1>1
  <2> HIDE DEF n
  <2> QED
    BY <1>1, <2>1, Greatest
<1>8. it = Body(it)
  <2>1. \A s \in SUBSET (1..n) : it[s] = IF s = {} THEN Zero ELSE g[<<it[s \ {Max(s)}], Max(s)>>]
    BY <1>6 DEF FoldOf
  <2>2. ASSUME NEW s \in SUBSET (1..n), s # {}
        PROVE  g[<<it[s \ {Max(s)}], Max(s)>>] = CountOne(it[s \ {Max(s)}], q[Max(s)])
    BY <1>6, <1>7, <2>2
  <2> HIDE DEF g
  <2> QED
    BY <1>1, <1>6, <2>1, <2>2
<1>9. F = Body(F)
  BY <1>8
<1>10. F[{}] = Zero
  BY <1>1, <1>9
<1>11. ASSUME NEW k \in 1..n PROVE F[1..k] = CountOne(F[1..(k - 1)], q[k])
  <2>1. 1..k \in SUBSET (1..n) /\ 1..k # {} /\ Max(1..k) = k /\ (1..k) \ {k} = 1..(k - 1)
    BY <1>1, Intervals
  <2>2. F[1..k] = Body(F)[1..k]
    BY <1>9
  <2>3. Body(F)[1..k] = CountOne(F[(1..k) \ {Max(1..k)}], q[Max(1..k)])
    BY <1>1, <2>1
  <2> QED
    BY <2>1, <2>2, <2>3
<1>12. \A k \in 0..n : F[1..k] \in Tallies
  <2> DEFINE S == {k \in 0..n : F[1..k] \in Tallies}
  <2> HIDE DEF n, F
  <2>1. 0 \in S
    <3>1. 1..0 = {} /\ 0 \in 0..n
      BY <1>1
    <3> QED
      BY <1>3, <1>10, <3>1
  <2>2. ASSUME NEW k \in 0..(n - 1), k \in S PROVE k + 1 \in S
    <3>1. k + 1 \in 1..n /\ (k + 1) - 1 = k /\ k + 1 \in 0..n
      BY <1>1
    <3>2. F[1..(k + 1)] = CountOne(F[1..k], q[k + 1])
      BY <1>11, <3>1
    <3> QED
      BY <1>4, <2>2, <3>1, <3>2
  <2> HIDE DEF S
  <2>3. \A k \in 0..n : k \in S
    BY <1>1, <2>1, <2>2, UpTo
  <2> QED
    BY <2>3 DEF S
<1> DEFINE f == [k \in 0..n |-> F[1..k]]
<1> HIDE DEF n, F
<1>13. f \in [0..n -> Tallies] /\ f[0] = Zero
  BY <1>1, <1>10, <1>12
<1>14. \A k \in 1..n : f[k] = CountOne(f[k - 1], q[k])
  BY <1>1, <1>11
<1>15. Counts(q) = f[n]
  BY <1>1, <1>2
<1> HIDE DEF f
<1> QED
  BY <1>13, <1>14, <1>15 DEF n, Adding

LEMMA CountsFrom ==
    ASSUME NEW q \in Seq(Records)
    PROVE  \E n \in Nat : n = Len(q) /\ \E f \in [0..n -> Tallies] : Adding(f, q, n)
<1>1. Len(q) \in Nat
  BY LenProperties
<1>2. \E f \in [0..Len(q) -> Tallies] : Adding(f, q, Len(q))
  BY ONLY q \in Seq(Records), CountsSteps, Zenon
<1> QED
  BY ONLY <1>1, <1>2, Zenon

LEMMA CountsAppend ==
    ASSUME NEW q \in Seq(Records), NEW a \in Records
    PROVE  Counts(Append(q, a)) = CountOne(Counts(q), a)
<1> DEFINE r == Append(q, a)
<1>1. PICK n \in Nat : n = Len(q) /\ \E f \in [0..n -> Tallies] : Adding(f, q, n)
  BY CountsFrom, Zenon
<1>2. PICK f \in [0..n -> Tallies] : Adding(f, q, n)
  BY <1>1, Zenon
<1>3. r \in Seq(Records) /\ Len(r) = n + 1 /\ r[n + 1] = a /\ \A i \in 1..n : r[i] = q[i]
  BY <1>1, AppendProperties
<1> HIDE DEF r
<1>4. PICK h \in [0..(n + 1) -> Tallies] : Adding(h, r, n + 1)
  <2>1. \E m \in Nat : m = Len(r) /\ \E h \in [0..m -> Tallies] : Adding(h, r, m)
    BY <1>3, CountsFrom, Zenon
  <2>2. Len(r) = n + 1
    BY <1>3
  <2> QED
    BY ONLY <2>1, <2>2, Zenon
<1> DEFINE S == {k \in 0..n : h[k] = f[k]}
<1>5. 0 \in S
  BY <1>2, <1>4 DEF Adding
<1>6. ASSUME NEW k \in 0..(n - 1), k \in S PROVE k + 1 \in S
  <2>1. k + 1 \in 1..n /\ k + 1 \in 1..(n + 1) /\ k + 1 \in 0..n /\ (k + 1) - 1 = k
    OBVIOUS
  <2>2. f[k + 1] = CountOne(f[k], q[k + 1])
    BY <1>2, <2>1 DEF Adding
  <2>3. h[k + 1] = CountOne(h[k], r[k + 1])
    BY <1>4, <2>1 DEF Adding
  <2> QED
    BY <1>3, <1>6, <2>1, <2>2, <2>3
<1>7. \A k \in 0..n : k \in S
  <2> HIDE DEF S
  <2> QED
    BY <1>5, <1>6, UpTo
<1>8. h[n] = f[n]
  BY <1>7
<1>9. h[n + 1] = CountOne(h[n], r[n + 1])
  <2>1. n + 1 \in 1..(n + 1) /\ (n + 1) - 1 = n
    OBVIOUS
  <2> QED
    BY <1>4, <2>1 DEF Adding
<1> QED
  BY <1>2, <1>3, <1>4, <1>8, <1>9 DEF Adding, r

\* Of whatever records: each has succeeded or failed.
LEMMA CountsIs ==
    ASSUME NEW q \in Seq(Records)
    PROVE  /\ Counts(q) \in Tallies /\ Counts(q).total = Counts(q).ok + Counts(q).failed
           /\ Counts(q).min <= U64Max
<1>1. PICK n \in Nat : n = Len(q) /\ \E f \in [0..n -> Tallies] : Adding(f, q, n)
  BY CountsFrom, Zenon
<1>2. PICK f \in [0..n -> Tallies] : Adding(f, q, n)
  BY <1>1, Zenon
<1> DEFINE S == {k \in 0..n : f[k].total = f[k].ok + f[k].failed /\ f[k].min <= U64Max}
<1>3. 0 \in S
  BY <1>2, LatencyStatsAssumption DEF Adding, Zero, Counters, Counted, LatencyStatsAssumption
<1>4. ASSUME NEW k \in 0..(n - 1), k \in S PROVE k + 1 \in S
  <2>1. k + 1 \in 1..n /\ k + 1 \in 0..n /\ (k + 1) - 1 = k /\ k \in 0..n
    OBVIOUS
  <2>2. PICK v, a, w : v = f[k] /\ a = q[k + 1] /\ w = f[k + 1]
    OBVIOUS
  <2>3. w = CountOne(v, a) /\ v \in Tallies /\ a \in Records
    BY <1>1, <1>2, <2>1, <2>2, ElementOfSeq DEF Adding
  <2>4. v.total = v.ok + v.failed /\ v.min <= U64Max
    BY <1>4, <2>2
  <2>5. "total" \in Counted /\ "ok" \in Counted /\ "failed" \in Counted
    BY DEF Counted
  <2>6. /\ w["min"] = IF a.sum < v["min"] THEN a.sum ELSE v["min"]
        /\ w["total"] = v["total"] + a["total"]
        /\ w["ok"] = v["ok"] + a["ok"] /\ w["failed"] = v["failed"] + a["failed"]
    BY <2>3, <2>5, CountOneIs
  <2>7. a.total = 1 /\ a.ok \in {0, 1} /\ a.failed = 1 - a.ok /\ a.sum < U64Max /\ a.sum \in Nat /\ U64Max \in Nat
    BY <2>3, RecordIs
  <2>8. v["total"] \in Nat /\ v["ok"] \in Nat /\ v["failed"] \in Nat
    BY <2>3 DEF Tallies, Counters, Counted
  <2>9. w.total = w.ok + w.failed /\ w.min <= U64Max
    BY ONLY <2>4, <2>6, <2>7, <2>8
  <2> QED
    BY <2>1, <2>2, <2>9
<1>5. \A k \in 0..n : k \in S
  <2> HIDE DEF S
  <2> QED
    BY <1>3, <1>4, UpTo
<1>6. n \in 0..n /\ f[n] \in Tallies /\ Counts(q) = f[n]
  BY <1>2 DEF Adding
<1> QED
  BY <1>5, <1>6

--------------------------------------------------------------------------------
(* What records have still to do.                                          *)
Places == {"idle", "add", "loadMin", "min", "loadMax", "max", "push"}
RecorderOK(w) ==
    /\ w \in [place : Places, todo : SUBSET Groups, adds : [Counted -> Nat], seen : Nat]
    /\ w.place # "idle" => w.adds \in Records
    /\ w.place = "add" <=> w.todo # {}

Waiting(w, c) == \E group \in w.todo : c \in group
\* What a thread is about to add to a counter, and for all threads together as a set of its size.
Weight(w, c) == IF Waiting(w, c) THEN w.adds[c] ELSE 0
Coming(c) == {x \in Recorders \X (1..U64Max) : x[2] <= Weight(recorder[x[1]], c)}

LatencyTypes ==
    /\ counters \in Tallies
    /\ recorder = [t \in Recorders |-> recorder[t]]
    /\ \A t \in Recorders : RecorderOK(recorder[t])
    /\ begun \in Seq(Records)
    /\ reader \in [todo : SUBSET Loaded, got : [Loaded -> Nat], met : Nat, crossed : BOOLEAN]
    /\ resetting \in Seq(Counters \cup {"samples"}) /\ crossed \in BOOLEAN
    /\ Reading => resetting = <<>>

LEMMA Pairs ==
    ASSUME NEW t, NEW m \in Nat
    PROVE  IsFiniteSet({t} \X (1..m)) /\ Cardinality({t} \X (1..m)) = m
<1>1. IsFiniteSet({t}) /\ Cardinality({t}) = 1
  BY FS_Singleton
<1>2. IsFiniteSet(1..m) /\ Cardinality(1..m) = m
  <2>1. 1 \in Int /\ m \in Int /\ (IF 1 > m THEN 0 ELSE m - 1 + 1) = m
    OBVIOUS
  <2> QED
    BY <2>1, FS_Interval
<1>3. Cardinality({t} \X (1..m)) = 1 * m /\ IsFiniteSet({t} \X (1..m))
  BY <1>1, <1>2, FS_Product
<1> QED
  BY <1>3

\* Two sets of pairs that differ in what one thread adds.
Apart(S, T, t, m, n) ==
    /\ {x \in S : x[1] = t} = {t} \X (1..m) /\ {x \in T : x[1] = t} = {t} \X (1..n)
    /\ {x \in S : x[1] # t} = {x \in T : x[1] # t}
Grown(S, T, m, n) ==
    /\ Cardinality(S) \in Nat /\ Cardinality(T) \in Nat
    /\ Cardinality(T) + m = Cardinality(S) + n

LEMMA PairsChange ==
    ASSUME NEW S \in SUBSET (Recorders \X (1..U64Max)), NEW T \in SUBSET (Recorders \X (1..U64Max)),
           NEW t, NEW m \in Nat, NEW n \in Nat,
           Apart(S, T, t, m, n)
    PROVE  Grown(S, T, m, n)
<1> DEFINE R == {x \in S : x[1] # t}
<1>1. IsFiniteSet(Recorders \X (1..U64Max))
  <2>1. IsFiniteSet(1..U64Max)
    BY ZeroIs, FS_Interval
  <2> QED
    BY <2>1, LatencyStatsAssumption, FS_Product DEF LatencyStatsAssumption
<1>2. IsFiniteSet(S) /\ IsFiniteSet(T) /\ IsFiniteSet(R)
  <2>1. R \in SUBSET (Recorders \X (1..U64Max))
    OBVIOUS
  <2> HIDE DEF R
  <2> QED
    BY <1>1, <2>1, FS_Subset
<1>3. /\ IsFiniteSet({t} \X (1..m)) /\ Cardinality({t} \X (1..m)) = m
      /\ IsFiniteSet({t} \X (1..n)) /\ Cardinality({t} \X (1..n)) = n
  BY Pairs
<1>4. S = R \cup ({t} \X (1..m)) /\ R \cap ({t} \X (1..m)) = {}
  BY DEF Apart
<1>5. T = R \cup ({t} \X (1..n)) /\ R \cap ({t} \X (1..n)) = {}
  BY DEF Apart
<1> HIDE DEF R
<1>6. Cardinality(S) = Cardinality(R) + m - Cardinality({})
  BY <1>2, <1>3, <1>4, FS_Union
<1>7. Cardinality(T) = Cardinality(R) + n - Cardinality({})
  BY <1>2, <1>3, <1>5, FS_Union
<1>8. Cardinality({}) = 0 /\ Cardinality(R) \in Nat
  BY <1>2, FS_EmptySet, FS_CardinalityType
<1> QED
  BY <1>6, <1>7, <1>8 DEF Grown

LEMMA WeightIs ==
    ASSUME NEW w, RecorderOK(w), NEW c \in Counted
    PROVE  Weight(w, c) \in 0..U64Max
<1>1. U64Max \in Nat
  BY ZeroIs
<1>2. CASE w.place = "add"
  <2>1. w.adds \in Records
    BY <1>2 DEF RecorderOK
  <2> DEFINE a == w.adds
  <2>2. /\ a.total = 1 /\ a.ok \in {0, 1} /\ a.failed = 1 - a.ok
        /\ a.timeouts \in {0, 1} /\ a.sum \in Nat /\ a.sum < U64Max
    BY <2>1, RecordIs
  <2>3. a[c] \in 0..U64Max
    BY <1>1, <2>2 DEF Counted
  <2> QED
    BY <1>1, <2>3 DEF Weight
<1>3. CASE w.place # "add"
  BY <1>1, <1>3 DEF RecorderOK, Weight, Waiting
<1> QED
  BY <1>2, <1>3

\* What changes when one thread does.
LEMMA ComingChange ==
    ASSUME LatencyTypes, NEW t \in Recorders, NEW w, RecorderOK(w),
           recorder' = [recorder EXCEPT ![t] = w], NEW c \in Counted
    PROVE  Grown(Coming(c), Coming(c)', Weight(recorder[t], c), Weight(w, c))
<1>1. recorder'[t] = w /\ \A u \in Recorders : u # t => recorder'[u] = recorder[u]
  BY DEF LatencyTypes
<1>2. Weight(recorder[t], c) \in 0..U64Max /\ Weight(w, c) \in 0..U64Max
  BY WeightIs DEF LatencyTypes
<1>3. PICK S, T, m, n :
           /\ S = Coming(c) /\ T = Coming(c)'
           /\ m = Weight(recorder[t], c) /\ n = Weight(w, c)
  OBVIOUS
<1>4. S \in SUBSET (Recorders \X (1..U64Max)) /\ T \in SUBSET (Recorders \X (1..U64Max))
  BY <1>3 DEF Coming
<1>5. {x \in S : x[1] = t} = {t} \X (1..m)
  BY <1>2, <1>3, ZeroIs DEF Coming
<1>6. {x \in T : x[1] = t} = {t} \X (1..n)
  BY <1>1, <1>2, <1>3, ZeroIs DEF Coming
<1>7. {x \in S : x[1] # t} = {x \in T : x[1] # t}
  BY <1>1, <1>3 DEF Coming
<1>8. m \in Nat /\ n \in Nat
  BY <1>2, <1>3, ZeroIs
<1>9. Apart(S, T, t, m, n)
  BY <1>5, <1>6, <1>7 DEF Apart
<1>10. Grown(S, T, m, n)
  BY ONLY <1>4, <1>8, <1>9, PairsChange
<1> QED
  BY ONLY <1>3, <1>10, Zenon

Turns(t, w) == recorder' = [recorder EXCEPT ![t] = w] /\ RecorderOK(w)

LEMMA TurnsIs ==
    ASSUME LatencyTypes, NEW t \in Recorders, NEW w, Turns(t, w)
    PROVE  /\ recorder' = [u \in Recorders |-> recorder'[u]]
           /\ recorder'[t] = w /\ \A u \in Recorders : u # t => recorder'[u] = recorder[u]
           /\ \A u \in Recorders : RecorderOK(recorder'[u])
BY DEF LatencyTypes, Turns

\* What a record does to its thread, place by place.
Thread == [place : Places, todo : SUBSET Groups, adds : [Counted -> Nat], seen : Nat]

HasFields(w, place, todo, adds, seen) ==
    w.place = place /\ w.todo = todo /\ w.adds = adds /\ w.seen = seen

LEMMA ThreadBegins ==
    ASSUME NEW v \in Thread, NEW place \in Places, NEW todo \in SUBSET Groups, NEW adds \in [Counted -> Nat],
           NEW w, w = [v EXCEPT !.place = place, !.adds = adds, !.todo = todo]
    PROVE  w \in Thread /\ HasFields(w, place, todo, adds, v.seen)
BY DEF Thread, HasFields

LEMMA ThreadAdds ==
    ASSUME NEW v \in Thread, NEW place \in Places, NEW todo \in SUBSET Groups,
           NEW w, w = [v EXCEPT !.todo = todo, !.place = place]
    PROVE  w \in Thread /\ HasFields(w, place, todo, v.adds, v.seen)
BY DEF Thread, HasFields

LEMMA ThreadLoads ==
    ASSUME NEW v \in Thread, NEW place \in Places, NEW seen \in Nat,
           NEW w, w = [v EXCEPT !.place = place, !.seen = seen]
    PROVE  w \in Thread /\ HasFields(w, place, v.todo, v.adds, seen)
BY DEF Thread, HasFields

LEMMA ThreadGoes ==
    ASSUME NEW v \in Thread, NEW place \in Places,
           NEW w, w = [v EXCEPT !.place = place]
    PROVE  w \in Thread /\ HasFields(w, place, v.todo, v.adds, v.seen)
BY DEF Thread, HasFields

LEMMA ThreadSees ==
    ASSUME NEW v \in Thread, NEW seen \in Nat,
           NEW w, w = [v EXCEPT !.seen = seen]
    PROVE  w \in Thread /\ HasFields(w, v.place, v.todo, v.adds, seen)
BY DEF Thread, HasFields

LEMMA ThreadIs ==
    ASSUME LatencyTypes, NEW t \in Recorders
    PROVE  /\ recorder[t] \in Thread /\ (recorder[t].place # "idle" => recorder[t].adds \in Records)
           /\ (recorder[t].place = "add" <=> recorder[t].todo # {})
BY DEF LatencyTypes, RecorderOK, Thread

LEMMA BeginMoves ==
    ASSUME LatencyTypes, NEW t \in Recorders, NEW r \in Results, BeginRecord(t, r)
    PROVE  \E w : /\ Turns(t, w) /\ w.place = "add" /\ w.todo = Groups
                  /\ w.adds = Adds(r) /\ Adds(r) \in Records
<1>1. Adds(r) \in Records /\ Adds(r) \in [Counted -> Nat]
  BY RecordIs DEF Records
<1>2. PICK w : w = [Idle EXCEPT !.place = "add", !.adds = Adds(r), !.todo = Groups]
  OBVIOUS
<1>3. w \in Thread /\ HasFields(w, "add", Groups, Adds(r), Idle.seen)
  <2>1. Idle \in Thread /\ "add" \in Places /\ Groups \in SUBSET Groups /\ 0 \in Nat
    BY DEF Idle, Thread, Places
  <2> QED
    BY <1>1, <1>2, <2>1, ThreadBegins
<1>4. RecorderOK(w)
  BY <1>1, <1>3 DEF RecorderOK, Thread, HasFields, Groups
<1>5. Turns(t, w)
  BY <1>2, <1>4, Zenon DEF BeginRecord, Turns
<1> QED
  BY <1>1, <1>3, <1>5 DEF HasFields

LEMMA AddMoves ==
    ASSUME LatencyTypes, NEW t \in Recorders, NEW group \in Groups, Add(t, group)
    PROVE  \E w : /\ Turns(t, w) /\ w.place \in {"add", "loadMin"} /\ w.adds = recorder[t].adds
                  /\ w.todo = recorder[t].todo \ {group}
<1>1. PICK v, p, rest : /\ v = recorder[t] /\ rest = v.todo \ {group}
                        /\ p = IF v.todo = {group} THEN "loadMin" ELSE "add"
  OBVIOUS
<1>2. v \in Thread /\ v.adds \in Records /\ v.place = "add" /\ group \in v.todo
  BY <1>1, ThreadIs DEF Add
<1>3. PICK w : w = [v EXCEPT !.todo = rest, !.place = p]
  OBVIOUS
<1>4. w \in Thread /\ HasFields(w, p, rest, v.adds, v.seen)
  <2>1. p \in Places /\ rest \in SUBSET Groups /\ v.adds \in [Counted -> Nat] /\ v.seen \in Nat
    BY <1>1, <1>2 DEF Places, Thread
  <2> QED
    BY <1>2, <1>3, <2>1, ThreadAdds
<1>5. recorder' = [recorder EXCEPT ![t] = w]
  <2>1. Added(v, group) = w
    BY ONLY <1>1, <1>3, Zenon DEF Added
  <2> QED
    BY <1>1, <2>1, Zenon DEF Add
<1>6. p \in {"add", "loadMin"} /\ (p = "add" <=> rest # {})
  BY <1>1, <1>2
<1>7. RecorderOK(w)
  BY <1>2, <1>4, <1>6 DEF RecorderOK, Thread, HasFields
<1> QED
  BY <1>1, <1>4, <1>5, <1>6, <1>7 DEF Turns, HasFields

LEMMA LoadMoves ==
    ASSUME LatencyTypes, NEW t \in Recorders, NEW from, NEW c \in Counters, NEW to \in Places,
           LoadExtreme(t, from, c, to), from \notin {"idle", "add"}, to \notin {"idle", "add"}
    PROVE  \E w : /\ Turns(t, w) /\ w.place = to /\ w.seen = counters[c]
                  /\ w.adds = recorder[t].adds /\ w.todo = {} /\ recorder[t].todo = {}
<1>1. PICK v, x : v = recorder[t] /\ x = counters[c]
  OBVIOUS
<1>2. v \in Thread /\ v.adds \in Records /\ v.place = from /\ v.todo = {}
  BY <1>1, ThreadIs DEF LoadExtreme
<1>3. PICK w : w = [v EXCEPT !.place = to, !.seen = x]
  OBVIOUS
<1>4. w \in Thread /\ HasFields(w, to, v.todo, v.adds, x)
  <2>1. x \in Nat
    BY <1>1 DEF LatencyTypes, Tallies
  <2>2. v.todo \in SUBSET Groups /\ v.adds \in [Counted -> Nat]
    BY <1>2 DEF Thread
  <2> QED
    BY <1>2, <1>3, <2>1, <2>2, ThreadLoads
<1>5. recorder' = [recorder EXCEPT ![t] = w]
  BY <1>1, <1>3, Zenon DEF LoadExtreme
<1>6. RecorderOK(w)
  BY <1>2, <1>4 DEF RecorderOK, Thread, HasFields
<1> QED
  BY <1>1, <1>2, <1>4, <1>5, <1>6 DEF Turns, HasFields

\* An exchange that is over has stored the record, or the record was no extreme.
LEMMA ExchangeMoves ==
    ASSUME LatencyTypes, NEW t \in Recorders, NEW c \in {"min", "max"}, NEW to \in Places,
           NEW beats \in BOOLEAN, ExchangeExtreme(t, c, c, beats, to), to \notin {"idle", "add"}
    PROVE  \E w : /\ Turns(t, w) /\ w.adds = recorder[t].adds /\ w.todo = {} /\ recorder[t].todo = {}
                  /\ \/ w.place = c /\ w.seen = counters[c] /\ counters' = counters
                     \/ w.place = to /\ ~beats /\ counters' = counters
                     \/ /\ w.place = to /\ beats /\ counters[c] = recorder[t].seen
                        /\ counters' = [counters EXCEPT ![c] = recorder[t].adds.sum]
<1>1. PICK v, x : v = recorder[t] /\ x = counters[c]
  OBVIOUS
<1>2. v \in Thread /\ v.adds \in Records /\ v.place = c /\ v.todo = {}
  BY <1>1, ThreadIs DEF ExchangeExtreme
<1>3. x \in Nat /\ v.todo \in SUBSET Groups /\ v.adds \in [Counted -> Nat]
  BY <1>1, <1>2 DEF LatencyTypes, Tallies, Counters, Thread
<1>4. CASE beats /\ x # v.seen
  <2>1. PICK w : w = [v EXCEPT !.seen = x]
    OBVIOUS
  <2>2. w \in Thread /\ HasFields(w, v.place, v.todo, v.adds, x)
    BY <1>2, <1>3, <2>1, ThreadSees
  <2>3. recorder' = [recorder EXCEPT ![t] = w] /\ counters' = counters
    BY <1>1, <1>4, <2>1, Zenon DEF ExchangeExtreme
  <2>4. RecorderOK(w)
    BY <1>2, <2>2 DEF RecorderOK, Thread, HasFields
  <2> QED
    BY <1>1, <1>2, <2>2, <2>3, <2>4 DEF Turns, HasFields
<1>5. CASE ~(beats /\ x # v.seen)
  <2>1. PICK w : w = [v EXCEPT !.place = to]
    OBVIOUS
  <2>2. w \in Thread /\ HasFields(w, to, v.todo, v.adds, v.seen)
    BY <1>2, <1>3, <2>1, ThreadGoes
  <2>3. recorder' = [recorder EXCEPT ![t] = w]
    BY <1>1, <1>5, <2>1, Zenon DEF ExchangeExtreme
  <2>4. RecorderOK(w)
    BY <1>2, <2>2 DEF RecorderOK, Thread, HasFields
  <2>5. counters' = [counters EXCEPT ![c] = IF beats THEN v.adds.sum ELSE x]
    BY <1>1, <1>5, Zenon DEF ExchangeExtreme
  <2>6. beats => counters' = [counters EXCEPT ![c] = v.adds.sum]
    BY <2>5
  <2>7. ~beats => counters' = counters
    BY <1>1, <2>5 DEF LatencyTypes, Tallies
  <2> QED
    BY <1>1, <1>2, <1>5, <2>2, <2>3, <2>4, <2>6, <2>7 DEF Turns, HasFields
<1> QED
  BY <1>4, <1>5

LEMMA PushMoves ==
    ASSUME LatencyTypes, NEW t \in Recorders, PushSample(t)
    PROVE  Turns(t, Idle) /\ Idle.place = "idle" /\ Idle.todo = {} /\ recorder[t].todo = {}
           /\ recorder[t].adds \in Records
<1>1. recorder[t].todo = {} /\ recorder[t].adds \in Records
  BY DEF PushSample, LatencyTypes, RecorderOK
<1>2. RecorderOK(Idle)
  BY DEF RecorderOK, Idle, Places
<1> QED
  BY <1>1, <1>2 DEF PushSample, Turns, Idle

LEMMA LatencyTypesInit == LatencyInit => LatencyTypes
<1> SUFFICES ASSUME LatencyInit PROVE LatencyTypes
  OBVIOUS
<1>1. PICK h \in Histories : begun = [i \in DOMAIN h |-> Adds(h[i])]
  BY DEF LatencyInit
<1>2. h \in Seq(Results)
  BY LatencyStatsAssumption DEF LatencyStatsAssumption
<1>3. PICK n \in Nat : Len(h) = n /\ DOMAIN h = 1..n /\ \A i \in 1..n : h[i] \in Results
  <2>1. Len(h) \in Nat /\ DOMAIN h = 1..Len(h)
    BY <1>2, LenProperties
  <2> QED
    BY <1>2, <2>1, ElementOfSeq
<1>4. begun \in Seq(Records)
  <2>1. \A i \in 1..n : Adds(h[i]) \in Records
    BY <1>3 DEF Records
  <2>2. begun = [i \in 1..n |-> Adds(h[i])]
    BY <1>1, <1>3
  <2> QED
    BY <2>1, <2>2, IsASeq
<1>5. counters \in Tallies
  BY <1>4, CountsIs DEF LatencyInit
<1>6. RecorderOK(Idle)
  BY DEF RecorderOK, Idle, Places
<1>7. recorder = [t \in Recorders |-> Idle]
  BY DEF LatencyInit
<1>8. reader \in [todo : SUBSET Loaded, got : [Loaded -> Nat], met : Nat, crossed : BOOLEAN]
      /\ resetting = <<>> /\ crossed = FALSE
  BY DEF LatencyInit, NoReader
<1>9. resetting \in Seq(Counters \cup {"samples"}) /\ crossed \in BOOLEAN
  <2>1. <<>> \in Seq(Counters \cup {"samples"})
    OBVIOUS
  <2> QED
    BY ONLY <1>8, <2>1
<1>10. recorder = [t \in Recorders |-> recorder[t]] /\ \A t \in Recorders : RecorderOK(recorder[t])
  BY <1>6, <1>7
<1> QED
  BY <1>4, <1>5, <1>8, <1>9, <1>10, Zenon DEF LatencyTypes

LEMMA BusyIs == IsFiniteSet(Busy) /\ Cardinality(Busy) \in Nat
<1>1. Busy \in SUBSET Recorders
  BY DEF Busy
<1>2. IsFiniteSet(Recorders)
  BY LatencyStatsAssumption DEF LatencyStatsAssumption
<1>3. IsFiniteSet(Busy)
  BY <1>1, <1>2, FS_Subset
<1> QED
  BY <1>3, FS_CardinalityType

LEMMA LatencyTypesStep == LatencyTypes /\ [LatencyNext]_latencyVars => LatencyTypes'
<1> SUFFICES ASSUME LatencyTypes, [LatencyNext]_latencyVars PROVE LatencyTypes'
  OBVIOUS
<1> DEFINE Reads == /\ reader' \in [todo : SUBSET Loaded, got : [Loaded -> Nat], met : Nat, crossed : BOOLEAN]
                    /\ resetting' \in Seq(Counters \cup {"samples"}) /\ crossed' \in BOOLEAN
                    /\ Reading' => resetting' = <<>>
           Turned == /\ recorder' = [t \in Recorders |-> recorder'[t]]
                     /\ \A t \in Recorders : RecorderOK(recorder'[t])
<1>1. ASSUME NEW t \in Recorders, NEW r \in Results, BeginRecord(t, r) PROVE LatencyTypes'
  <2>1. Turned
    BY <1>1, BeginMoves, TurnsIs
  <2>2. begun' \in Seq(Records) /\ counters' = counters
    <3>1. Adds(r) \in Records
      BY DEF Records
    <3> QED
      BY <1>1, <3>1, AppendProperties DEF BeginRecord, LatencyTypes
  <2>3. Reads
    <3>1. PICK m, v : v = reader /\ m = (IF Reading THEN v.met + 1 ELSE v.met)
      OBVIOUS
    <3>2. m \in Nat /\ v \in [todo : SUBSET Loaded, got : [Loaded -> Nat], met : Nat, crossed : BOOLEAN]
      BY <3>1 DEF LatencyTypes
    <3>3. reader' = [v EXCEPT !.met = m]
      BY <1>1, <3>1 DEF BeginRecord
    <3>4. reader' \in [todo : SUBSET Loaded, got : [Loaded -> Nat], met : Nat, crossed : BOOLEAN]
          /\ reader'.todo = v.todo
      BY <3>2, <3>3
    <3> QED
      BY <1>1, <3>1, <3>4 DEF BeginRecord, Reading, LatencyTypes
  <2> QED
    BY <2>1, <2>2, <2>3 DEF LatencyTypes
<1>2. ASSUME NEW t \in Recorders, NEW group \in Groups, Add(t, group) PROVE LatencyTypes'
  <2>1. Turned
    BY <1>2, AddMoves, TurnsIs
  <2>2. counters' \in Tallies
    <3>1. recorder[t].adds \in [Counted -> Nat] /\ group \subseteq Counted
      BY DEF Groups, Counted, LatencyTypes, RecorderOK
    <3>2. \A c \in Counters : (IF c \in group THEN counters[c] + recorder[t].adds[c] ELSE counters[c]) \in Nat
      BY <3>1 DEF LatencyTypes, Tallies
    <3> QED
      BY <1>2, <3>2 DEF Add, Tallies
  <2> QED
    BY <1>2, <2>1, <2>2 DEF LatencyTypes, Add, countVars, Reading
<1>3. ASSUME NEW t \in Recorders, UpdateMin(t) PROVE LatencyTypes'
  <2>1. CASE LoadExtreme(t, "loadMin", "min", "min")
    <3>1. Turned
      BY <2>1, LoadMoves, TurnsIs DEF Counters, Places
    <3> QED
      BY <2>1, <3>1 DEF LatencyTypes, LoadExtreme, countVars, Reading
  <2>2. CASE ExchangeExtreme(t, "min", "min", recorder[t].adds.sum < recorder[t].seen, "loadMax")
    <3> DEFINE beats == recorder[t].adds.sum < recorder[t].seen
    <3>0. beats \in BOOLEAN
      OBVIOUS
    <3> HIDE DEF beats
    <3>1. PICK w : /\ Turns(t, w)
                   /\ counters' = counters \/ counters' = [counters EXCEPT !["min"] = recorder[t].adds.sum]
      <4>1. ExchangeExtreme(t, "min", "min", beats, "loadMax")
        BY <2>2, Zenon DEF beats
      <4>2. "loadMax" \in Places
        BY DEF Places
      <4> QED
        BY <3>0, <4>1, <4>2, ExchangeMoves
    <3>2. recorder[t].adds.sum \in Nat
      BY DEF LatencyTypes, RecorderOK, Counted
    <3>3. counters' \in Tallies
      BY <3>1, <3>2 DEF LatencyTypes, Tallies
    <3> QED
      BY <2>2, <3>1, <3>3, TurnsIs DEF LatencyTypes, ExchangeExtreme, countVars, Reading
  <2> QED
    BY <1>3, <2>1, <2>2 DEF UpdateMin
<1>4. ASSUME NEW t \in Recorders, UpdateMax(t) PROVE LatencyTypes'
  <2>1. CASE LoadExtreme(t, "loadMax", "max", "max")
    <3>1. Turned
      BY <2>1, LoadMoves, TurnsIs DEF Counters, Places
    <3> QED
      BY <2>1, <3>1 DEF LatencyTypes, LoadExtreme, countVars, Reading
  <2>2. CASE ExchangeExtreme(t, "max", "max", recorder[t].adds.sum > recorder[t].seen, "push")
    <3> DEFINE beats == recorder[t].adds.sum > recorder[t].seen
    <3>0. beats \in BOOLEAN
      OBVIOUS
    <3> HIDE DEF beats
    <3>1. PICK w : /\ Turns(t, w)
                   /\ counters' = counters \/ counters' = [counters EXCEPT !["max"] = recorder[t].adds.sum]
      <4>1. ExchangeExtreme(t, "max", "max", beats, "push")
        BY <2>2, Zenon DEF beats
      <4>2. "push" \in Places
        BY DEF Places
      <4> QED
        BY <3>0, <4>1, <4>2, ExchangeMoves
    <3>2. recorder[t].adds.sum \in Nat
      BY DEF LatencyTypes, RecorderOK, Counted
    <3>3. counters' \in Tallies
      BY <3>1, <3>2 DEF LatencyTypes, Tallies
    <3> QED
      BY <2>2, <3>1, <3>3, TurnsIs DEF LatencyTypes, ExchangeExtreme, countVars, Reading
  <2> QED
    BY <1>4, <2>1, <2>2 DEF UpdateMax
<1>5. ASSUME NEW t \in Recorders, PushSample(t) PROVE LatencyTypes'
  <2>1. Turned
    BY <1>5, PushMoves, TurnsIs
  <2> QED
    BY <1>5, <2>1 DEF LatencyTypes, PushSample, countVars, Reading
<1>6. CASE BeginSnapshot
  <2>1. reader' = [todo |-> Loaded, got |-> NoReader.got, met |-> Cardinality(Busy), crossed |-> crossed]
    BY <1>6 DEF BeginSnapshot, NoReader
  <2>2. Reads
    BY <1>6, <2>1, BusyIs DEF BeginSnapshot, LatencyTypes, NoReader
  <2> QED
    BY <1>6, <2>2 DEF BeginSnapshot, LatencyTypes, sampleVars
<1>7. ASSUME NEW c \in Loaded, LoadCounter(c) PROVE LatencyTypes'
  <2>1. PICK v : v = reader
    OBVIOUS
  <2>2. v \in [todo : SUBSET Loaded, got : [Loaded -> Nat], met : Nat, crossed : BOOLEAN]
        /\ counters[c] \in Nat
    BY <2>1 DEF LatencyTypes, Tallies, Loaded, Counters, Counted
  <2>3. reader' = [v EXCEPT !.todo = @ \ {c}, !.got[c] = counters[c]]
    BY <1>7, <2>1 DEF LoadCounter
  <2>4. reader' \in [todo : SUBSET Loaded, got : [Loaded -> Nat], met : Nat, crossed : BOOLEAN]
    BY <2>2, <2>3
  <2>5. Reading
    BY <1>7 DEF LoadCounter, Reading
  <2> QED
    BY <1>7, <2>4, <2>5 DEF LoadCounter, LatencyTypes, sampleVars
<1>8. CASE TakePercentile
  BY <1>8 DEF TakePercentile, LatencyTypes, Reading
<1>9. CASE BeginReset
  <2>1. ResetOrder \in Seq(Counters \cup {"samples"})
    BY DEF ResetOrder, Counters, Counted
  <2>2. <<>> \in Seq(Records)
    OBVIOUS
  <2> QED
    BY <1>9, <2>1, <2>2 DEF BeginReset, LatencyTypes, Reading
<1>10. CASE ResetNext
  <2>1. resetting' \in Seq(Counters \cup {"samples"})
    BY <1>10, HeadTailProperties DEF ResetNext, LatencyTypes
  <2>2. Head(resetting) \in Counters \cup {"samples"}
    BY <1>10, HeadTailProperties DEF ResetNext, LatencyTypes
  <2>3. counters' \in Tallies
    BY <1>10, <2>2, ZeroIs DEF ResetNext, LatencyTypes, Tallies
  <2> QED
    BY <1>10, <2>1, <2>3 DEF ResetNext, LatencyTypes, Reading
<1>11. CASE UNCHANGED latencyVars
  BY <1>11 DEF latencyVars, LatencyTypes, Reading
<1> QED
  BY <1>1, <1>2, <1>3, <1>4, <1>5, <1>6, <1>7, <1>8, <1>9, <1>10, <1>11 DEF LatencyNext

\* The least and the greatest record: how one counter stands to the records it has counted.
Best(c, x, y) == IF c = "min" THEN x <= y ELSE x >= y
Owes(w, c) == w.place \in {"add", "loadMin", "min"} \cup (IF c = "min" THEN {} ELSE {"loadMax", "max"})
Held(c, count, best, threads) ==
    /\ Best(c, best, count)
    /\ \A t \in Recorders : Owes(threads[t], c) => Best(c, best, threads[t].adds.sum)
    /\ count = best \/ \E t \in Recorders : Owes(threads[t], c) /\ threads[t].adds.sum = best
    /\ \A t \in Recorders : threads[t].place = c => Best(c, count, threads[t].seen)

Measured(w) == w.adds.sum \in Nat /\ w.seen \in Nat
OnlyIn(t, f, g) ==
    /\ \A u \in Recorders : Measured(f[u]) /\ Measured(g[u])
    /\ \A u \in Recorders : u # t => g[u] = f[u]

LEMMA HeldBegins ==
    ASSUME NEW c \in {"min", "max"}, NEW count \in Nat, NEW best \in Nat, NEW f, NEW g,
           NEW t \in Recorders, OnlyIn(t, f, g),
           ~Owes(f[t], c), g[t].place = "add", Held(c, count, best, f),
           NEW next \in Nat,
           next = IF Best(c, best, g[t].adds.sum) THEN best ELSE g[t].adds.sum
    PROVE  Held(c, count, next, g)
<1> USE DEF Best, Owes, Measured, OnlyIn
<1>1. Best(c, next, count)
  BY DEF Held
<1>2. ASSUME NEW u \in Recorders, Owes(g[u], c) PROVE Best(c, next, g[u].adds.sum)
  BY <1>2 DEF Held
<1>3. count = next \/ \E u \in Recorders : Owes(g[u], c) /\ g[u].adds.sum = next
  <2>1. CASE next = best
    BY <2>1 DEF Held
  <2>2. CASE next = g[t].adds.sum
    BY <2>2
  <2> QED
    BY <2>1, <2>2
<1>4. ASSUME NEW u \in Recorders, g[u].place = c PROVE Best(c, count, g[u].seen)
  BY <1>4 DEF Held
<1> QED
  BY <1>1, <1>2, <1>3, <1>4 DEF Held

LEMMA HeldOn ==
    ASSUME NEW c \in {"min", "max"}, NEW count \in Nat, NEW best \in Nat, NEW f, NEW g,
           NEW t \in Recorders, OnlyIn(t, f, g),
           Owes(f[t], c) <=> Owes(g[t], c), Owes(f[t], c) => g[t].adds = f[t].adds,
           g[t].place = c => g[t].seen = count,
           Held(c, count, best, f)
    PROVE  Held(c, count, best, g)
<1> USE DEF Measured, OnlyIn
<1>1. ASSUME NEW u \in Recorders, Owes(g[u], c) PROVE Best(c, best, g[u].adds.sum)
  BY <1>1 DEF Held
<1>2. count = best \/ \E u \in Recorders : Owes(g[u], c) /\ g[u].adds.sum = best
  BY DEF Held
<1>3. ASSUME NEW u \in Recorders, g[u].place = c PROVE Best(c, count, g[u].seen)
  BY <1>3 DEF Held, Best
<1> QED
  BY <1>1, <1>2, <1>3 DEF Held

LEMMA HeldEnds ==
    ASSUME NEW c \in {"min", "max"}, NEW count \in Nat, NEW best \in Nat, NEW f, NEW g,
           NEW t \in Recorders, OnlyIn(t, f, g),
           Owes(f[t], c), ~Owes(g[t], c), g[t].place # c, NEW now \in Nat,
           \/ now = count /\ Best(c, count, f[t].adds.sum)
           \/ now = f[t].adds.sum /\ Best(c, now, count),
           Held(c, count, best, f)
    PROVE  Held(c, now, best, g)
<1> USE DEF Measured, OnlyIn
<1>1. Best(c, best, now) /\ Best(c, now, count) /\ Best(c, now, f[t].adds.sum)
  BY DEF Held, Best
<1>2. ASSUME NEW u \in Recorders, Owes(g[u], c) PROVE Best(c, best, g[u].adds.sum)
  BY <1>2 DEF Held
<1>3. now = best \/ \E u \in Recorders : Owes(g[u], c) /\ g[u].adds.sum = best
  <2>1. CASE count = best
    BY <1>1, <2>1 DEF Best
  <2>2. ASSUME NEW u \in Recorders, Owes(f[u], c), f[u].adds.sum = best
        PROVE  now = best \/ (Owes(g[u], c) /\ g[u].adds.sum = best)
    <3>1. CASE u = t
      BY <1>1, <2>2, <3>1 DEF Best
    <3>2. CASE u # t
      BY <2>2, <3>2
    <3> QED
      BY <3>1, <3>2
  <2> QED
    BY <2>1, <2>2 DEF Held
<1>4. ASSUME NEW u \in Recorders, g[u].place = c PROVE Best(c, now, g[u].seen)
  <2>1. u # t /\ g[u] = f[u] /\ Best(c, count, f[u].seen)
    BY <1>4 DEF Held
  <2> QED
    BY <1>1, <2>1 DEF Best
<1> QED
  BY <1>1, <1>2, <1>3, <1>4 DEF Held

\* The sums: what threads have still to add is missing from a counter.
LEMMA SumChange ==
    ASSUME LatencyTypes, NEW t \in Recorders, NEW w, Turns(t, w), NEW c \in Counted, NEW n \in Nat,
           NEW old \in Nat, NEW now \in Nat, NEW d \in Nat,
           old + Cardinality(Coming(c)) = n,
           now + Weight(w, c) = old + Weight(recorder[t], c) + d
    PROVE  now + Cardinality(Coming(c)') = n + d
<1>1. Grown(Coming(c), Coming(c)', Weight(recorder[t], c), Weight(w, c))
  BY ComingChange DEF Turns
<1>2. Weight(recorder[t], c) \in Nat /\ Weight(w, c) \in Nat
  BY WeightIs, ZeroIs DEF Turns, LatencyTypes
<1>3. PICK x, y, v, z : /\ x = Cardinality(Coming(c)) /\ y = Cardinality(Coming(c)')
                        /\ v = Weight(recorder[t], c) /\ z = Weight(w, c)
  OBVIOUS
<1>4. x \in Nat /\ y \in Nat /\ v \in Nat /\ z \in Nat /\ y + v = x + z
  BY <1>1, <1>2, <1>3 DEF Grown
<1>5. old + x = n /\ now + z = old + v + d
  BY <1>3
<1>6. now + y = n + d
  BY ONLY <1>4, <1>5, n \in Nat, old \in Nat, now \in Nat, d \in Nat
<1> QED
  BY <1>3, <1>6

LEMMA WeightsOfGroups ==
    ASSUME NEW v, NEW w, NEW group \in Groups, NEW c \in Counted,
           v.todo \in SUBSET Groups, group \in v.todo, w.todo = v.todo \ {group}, w.adds = v.adds,
           v.adds \in [Counted -> Nat]
    PROVE  Weight(v, c) = Weight(w, c) + (IF c \in group THEN v.adds[c] ELSE 0)
<1>1. v.adds[c] \in Nat
  OBVIOUS
<1>2. CASE c \in group
  <2>1. Waiting(v, c) /\ ~Waiting(w, c)
    BY <1>2 DEF Waiting, Groups
  <2> QED
    BY <1>1, <1>2, <2>1 DEF Weight
<1>3. CASE c \notin group
  <2>1. Waiting(v, c) <=> Waiting(w, c)
    BY <1>3 DEF Waiting
  <2> QED
    BY <1>1, <1>3, <2>1 DEF Weight
<1> QED
  BY <1>2, <1>3

LEMMA WeightsAtEnds ==
    ASSUME NEW w, NEW c \in Counted
    PROVE  /\ w.todo = {} => Weight(w, c) = 0
           /\ w.todo = Groups => Weight(w, c) = w.adds[c]
<1>1. \E group \in Groups : c \in group
  BY DEF Groups, Counted
<1> QED
  BY <1>1 DEF Weight, Waiting

Exact ==
    /\ \A c \in Counted : counters[c] + Cardinality(Coming(c)) = Counts(begun)[c]
    /\ \A c \in {"min", "max"} : Held(c, counters[c], Counts(begun)[c], recorder)

\* A reset that meets no record has all the counters to itself.
CountInv ==
    ~crossed =>
        IF resetting = <<>> THEN Exact
        ELSE /\ Busy = {} /\ begun = <<>>
             /\ \A c \in Counters : counters[c] = Zero[c] \/ \E i \in 1..Len(resetting) : resetting[i] = c

LEMMA QuietIs ==
    ASSUME LatencyTypes, Busy = {}
    PROVE  /\ \A c \in Counted : Coming(c) = {} /\ Cardinality(Coming(c)) = 0
           /\ \A c \in {"min", "max"}, t \in Recorders : ~Owes(recorder[t], c) /\ recorder[t].place # c
<1>1. \A t \in Recorders : recorder[t].place = "idle" /\ recorder[t].todo = {}
  BY DEF Busy, LatencyTypes, RecorderOK
<1>2. ASSUME NEW c \in Counted PROVE Coming(c) = {}
  <2>1. ASSUME NEW t \in Recorders PROVE Weight(recorder[t], c) = 0
    BY <1>1, WeightsAtEnds
  <2>2. ASSUME NEW x \in Recorders \X (1..U64Max) PROVE ~(x[2] <= Weight(recorder[x[1]], c))
    <3>1. x[1] \in Recorders /\ x[2] \in 1..U64Max
      OBVIOUS
    <3>2. Weight(recorder[x[1]], c) = 0 /\ U64Max \in Nat
      BY <2>1, <3>1, ZeroIs
    <3> QED
      BY ONLY <3>1, <3>2
  <2> QED
    BY <2>2, Zenon DEF Coming
<1>3. \A c \in {"min", "max"}, t \in Recorders : ~Owes(recorder[t], c) /\ recorder[t].place # c
  BY <1>1 DEF Owes
<1> QED
  BY <1>2, <1>3, FS_EmptySet

LEMMA ExactOfEqual ==
    ASSUME LatencyTypes, Busy = {}, counters = Counts(begun)
    PROVE  Exact
<1>1. Counts(begun) \in Tallies
  BY CountsIs DEF LatencyTypes
<1>2. ASSUME NEW c \in Counted PROVE counters[c] + Cardinality(Coming(c)) = Counts(begun)[c]
  <2>1. Counts(begun)[c] \in Nat /\ Cardinality(Coming(c)) = 0
    BY <1>1, QuietIs DEF Tallies, Counters
  <2> QED
    BY <2>1
<1>3. ASSUME NEW c \in {"min", "max"} PROVE Held(c, counters[c], Counts(begun)[c], recorder)
  <2>1. Counts(begun)[c] \in Nat
    BY <1>1 DEF Tallies, Counters
  <2> QED
    BY <2>1, QuietIs DEF Held, Best
<1> QED
  BY <1>2, <1>3 DEF Exact

LEMMA EqualOfExact ==
    ASSUME LatencyTypes, Busy = {}, Exact
    PROVE  counters = Counts(begun)
<1>1. Counts(begun) \in Tallies /\ counters \in Tallies
  BY CountsIs DEF LatencyTypes
<1>2. ASSUME NEW c \in Counted PROVE counters[c] = Counts(begun)[c]
  <2>1. counters[c] + Cardinality(Coming(c)) = Counts(begun)[c] /\ counters[c] \in Nat
        /\ Cardinality(Coming(c)) = 0
    BY <1>1, QuietIs DEF Exact, Tallies, Counters
  <2> QED
    BY <2>1
<1>3. ASSUME NEW c \in {"min", "max"} PROVE counters[c] = Counts(begun)[c]
  BY QuietIs DEF Exact, Held
<1> QED
  BY <1>1, <1>2, <1>3 DEF Tallies, Counters

LEMMA CountsOfNone == Counts(<<>>) = Zero
<1>1. <<>> \in Seq(Records) /\ Len(<<>>) = 0
  OBVIOUS
<1>2. PICK n \in Nat : n = Len(<<>>) /\ \E f \in [0..n -> Tallies] : Adding(f, <<>>, n)
  BY <1>1, CountsFrom, Zenon
<1> QED
  BY <1>1, <1>2 DEF Adding

LEMMA Threads ==
    ASSUME LatencyTypes, NEW t \in Recorders, NEW w, Turns(t, w)
    PROVE  OnlyIn(t, recorder, recorder') /\ recorder'[t] = w
<1>1. \A u \in Recorders : RecorderOK(recorder[u]) /\ RecorderOK(recorder'[u])
  BY TurnsIs DEF LatencyTypes
<1> QED
  BY <1>1, TurnsIs DEF OnlyIn, Measured, RecorderOK, Counted

LEMMA ExactBegins ==
    ASSUME LatencyTypes, Exact, NEW t \in Recorders, NEW r \in Results, BeginRecord(t, r)
    PROVE  Exact'
<1>1. PICK w : Turns(t, w) /\ w.place = "add" /\ w.todo = Groups /\ w.adds = Adds(r) /\ Adds(r) \in Records
  BY BeginMoves
<1>2. PICK old, next, a : old = Counts(begun) /\ next = Counts(begun') /\ a = Adds(r)
  OBVIOUS
<1>3. next = CountOne(old, a) /\ old \in Tallies /\ a \in Records /\ counters' = counters /\ a = w.adds
  BY <1>1, <1>2, CountsAppend, CountsIs DEF BeginRecord, LatencyTypes
<1>4. recorder[t].place = "idle" /\ recorder[t].todo = {}
  BY ThreadIs DEF BeginRecord
<1>5. ASSUME NEW c \in Counted PROVE counters'[c] + Cardinality(Coming(c)') = next[c]
  <2>1. next[c] = old[c] + a[c] /\ old[c] \in Nat /\ a[c] \in Nat /\ counters[c] \in Nat
    BY <1>3, CountOneIs, RecordIs DEF Tallies, Counters, LatencyTypes
  <2>2. counters[c] + Cardinality(Coming(c)) = old[c]
    BY <1>2 DEF Exact
  <2>3. Weight(recorder[t], c) = 0 /\ Weight(w, c) = a[c]
    BY <1>1, <1>3, <1>4, WeightsAtEnds
  <2>4. counters[c] + Weight(w, c) = counters[c] + Weight(recorder[t], c) + a[c]
    BY <2>1, <2>3
  <2>5. counters[c] + Cardinality(Coming(c)') = old[c] + a[c]
    BY <1>1, <2>1, <2>2, <2>4, SumChange
  <2> QED
    BY <1>3, <2>1, <2>5
<1>6. ASSUME NEW c \in {"min", "max"} PROVE Held(c, counters'[c], next[c], recorder')
  <2>1. old[c] \in Nat /\ counters[c] \in Nat /\ a.sum \in Nat
    BY <1>3, RecordIs DEF Tallies, Counters, LatencyTypes
  <2>2. next[c] = IF Best(c, old[c], a.sum) THEN old[c] ELSE a.sum
    BY <1>3, <2>1, CountOneIs DEF Best
  <2>3. Held(c, counters[c], old[c], recorder)
    BY <1>2 DEF Exact
  <2>4. ~Owes(recorder[t], c) /\ recorder'[t].place = "add" /\ recorder'[t].adds.sum = a.sum
    BY <1>1, <1>3, <1>4, Threads DEF Owes
  <2>5. next[c] \in Nat
    BY <2>1, <2>2
  <2>6. Held(c, counters[c], next[c], recorder')
    <3>1. OnlyIn(t, recorder, recorder') /\ recorder'[t] = w
      BY <1>1, Threads
    <3>2. next[c] = IF Best(c, old[c], recorder'[t].adds.sum) THEN old[c] ELSE recorder'[t].adds.sum
      BY <2>2, <2>4, <3>1
    <3> QED
      BY ONLY <3>1, <3>2, <2>1, <2>3, <2>4, <2>5, t \in Recorders, c \in {"min", "max"}, HeldBegins
  <2> QED
    BY <1>3, <2>6
<1> QED
  BY <1>2, <1>5, <1>6 DEF Exact

LEMMA ExactAdds ==
    ASSUME LatencyTypes, Exact, NEW t \in Recorders, NEW group \in Groups, Add(t, group)
    PROVE  Exact'
<1>1. PICK w : /\ Turns(t, w) /\ w.place \in {"add", "loadMin"} /\ w.adds = recorder[t].adds
               /\ w.todo = recorder[t].todo \ {group}
  BY AddMoves
<1>2. PICK best : best = Counts(begun) /\ best = Counts(begun)'
  BY DEF Add, countVars
<1>3. best \in Tallies /\ counters \in Tallies
  BY <1>2, CountsIs DEF LatencyTypes
<1>4. group \in recorder[t].todo /\ recorder[t].place = "add" /\ recorder[t] \in Thread
  BY ThreadIs DEF Add
<1>5. \A c \in Counters : counters'[c] = IF c \in group THEN counters[c] + recorder[t].adds[c] ELSE counters[c]
  BY DEF Add
<1>6. ASSUME NEW c \in Counted PROVE counters'[c] + Cardinality(Coming(c)') = best[c]
  <2>1. PICK x, y, v, z : /\ x = counters[c] /\ y = counters'[c]
                          /\ v = Weight(recorder[t], c) /\ z = Weight(w, c)
    OBVIOUS
  <2>2. x \in Nat /\ best[c] \in Nat /\ c \in Counters
    BY <1>3, <2>1 DEF Tallies, Counters
  <2>3. recorder[t].adds[c] \in Nat
    BY <1>4 DEF Thread
  <2>4. z \in Nat
    BY <1>1, <2>1, WeightIs, ZeroIs DEF Turns
  <2>5. v = z + (IF c \in group THEN recorder[t].adds[c] ELSE 0)
    BY <1>1, <1>4, <2>1, WeightsOfGroups DEF Thread
  <2>6. y = x + (IF c \in group THEN recorder[t].adds[c] ELSE 0)
    BY <1>5, <2>1, <2>2
  <2>7. y \in Nat /\ y + z = x + v + 0
    BY <2>2, <2>3, <2>4, <2>5, <2>6
  <2>8. x + Cardinality(Coming(c)) = best[c]
    BY <1>2, <2>1 DEF Exact
  <2>9. y + Cardinality(Coming(c)') = best[c] + 0
    BY <1>1, <2>1, <2>2, <2>7, <2>8, SumChange
  <2> QED
    BY <2>1, <2>2, <2>9
<1>7. ASSUME NEW c \in {"min", "max"} PROVE Held(c, counters'[c], best[c], recorder')
  <2>1. counters[c] \in Nat /\ best[c] \in Nat /\ counters'[c] = counters[c]
    BY <1>3, <1>5 DEF Tallies, Counters, Groups
  <2>2. Held(c, counters[c], best[c], recorder)
    BY <1>2 DEF Exact
  <2>3. Owes(recorder[t], c) /\ Owes(w, c) /\ w.place # c
    BY <1>1, <1>4 DEF Owes
  <2>4. Held(c, counters[c], best[c], recorder')
    <3>1. OnlyIn(t, recorder, recorder') /\ recorder'[t] = w
      BY <1>1, Threads
    <3>2. /\ Owes(recorder[t], c) /\ Owes(recorder'[t], c) /\ recorder'[t].place # c
          /\ recorder'[t].adds = recorder[t].adds
      BY <1>1, <2>3, <3>1
    <3> QED
      BY ONLY <3>1, <3>2, <2>1, <2>2, t \in Recorders, c \in {"min", "max"}, HeldOn
  <2> QED
    BY <2>1, <2>4
<1> QED
  BY <1>2, <1>6, <1>7 DEF Exact

\* Any other step of a record leaves the sums alone.
LEMMA SumsStay ==
    ASSUME LatencyTypes, Exact, NEW t \in Recorders, NEW w, Turns(t, w),
           recorder[t].todo = {}, w.todo = {}, NEW c \in Counted,
           counters'[c] = counters[c], begun' = begun
    PROVE  counters'[c] + Cardinality(Coming(c)') = Counts(begun')[c]
<1>1. PICK best : best = Counts(begun)
  OBVIOUS
<1>2. best[c] \in Nat /\ counters[c] \in Nat
  BY <1>1, CountsIs DEF LatencyTypes, Tallies, Counters
<1>3. Weight(recorder[t], c) = 0 /\ Weight(w, c) = 0
  BY WeightsAtEnds
<1>4. counters[c] + Cardinality(Coming(c)) = best[c]
  BY <1>1 DEF Exact
<1>5. counters[c] + Weight(w, c) = counters[c] + Weight(recorder[t], c) + 0
  BY <1>2, <1>3
<1>6. counters[c] + Cardinality(Coming(c)') = best[c] + 0
  BY <1>2, <1>4, <1>5, SumChange
<1> QED
  BY <1>1, <1>2, <1>6

Around(c) == IF c = "min" THEN <<"loadMin", "loadMax">> ELSE <<"loadMax", "push">>

LEMMA ExactLoads ==
    ASSUME LatencyTypes, Exact, NEW t \in Recorders, NEW c \in {"min", "max"},
           LoadExtreme(t, Around(c)[1], c, c)
    PROVE  Exact'
<1>1. c \in Counters /\ c \in Places /\ Around(c)[1] \notin {"idle", "add"} /\ c \notin {"idle", "add"}
  BY DEF Counters, Places, Around
<1>2. PICK w : /\ Turns(t, w) /\ w.place = c /\ w.seen = counters[c]
               /\ w.adds = recorder[t].adds /\ w.todo = {} /\ recorder[t].todo = {}
  BY <1>1, LoadMoves
<1>3. counters' = counters /\ begun' = begun /\ recorder[t].place = Around(c)[1]
  BY DEF LoadExtreme, countVars
<1>4. PICK best : best = Counts(begun)
  OBVIOUS
<1>5. ASSUME NEW k \in Counted PROVE counters'[k] + Cardinality(Coming(k)') = Counts(begun')[k]
  BY <1>2, <1>3, SumsStay
<1>6. ASSUME NEW k \in {"min", "max"} PROVE Held(k, counters'[k], best[k], recorder')
  <2>1. counters[k] \in Nat /\ best[k] \in Nat
    BY <1>4, CountsIs DEF LatencyTypes, Tallies, Counters
  <2>2. Owes(recorder[t], k) <=> Owes(w, k)
    BY <1>2, <1>3 DEF Owes, Around
  <2>3. w.place = k => w.seen = counters[k]
    BY <1>2
  <2>4. Held(k, counters[k], best[k], recorder)
    BY <1>4 DEF Exact
  <2>5. Held(k, counters[k], best[k], recorder')
    <3>1. recorder'[t] = w /\ w.adds = recorder[t].adds
      BY <1>2, Threads
    <3>2. OnlyIn(t, recorder, recorder')
      BY <1>2, Threads
    <3> QED
      BY <2>1, <2>2, <2>3, <2>4, <3>1, <3>2, HeldOn
  <2> QED
    BY <1>3, <2>5
<1> QED
  BY <1>3, <1>4, <1>5, <1>6 DEF Exact

LEMMA ExactExchanges ==
    ASSUME LatencyTypes, Exact, NEW t \in Recorders, NEW c \in {"min", "max"}, NEW beats \in BOOLEAN,
           beats <=> ~Best(c, recorder[t].seen, recorder[t].adds.sum),
           ExchangeExtreme(t, c, c, beats, Around(c)[2])
    PROVE  Exact'
<1>1. Around(c)[2] \in Places /\ Around(c)[2] \notin {"idle", "add"} /\ c \in Counters
  BY DEF Counters, Places, Around
<1>2. PICK w : /\ Turns(t, w) /\ w.adds = recorder[t].adds /\ w.todo = {} /\ recorder[t].todo = {}
               /\ \/ w.place = c /\ w.seen = counters[c] /\ counters' = counters
                  \/ w.place = Around(c)[2] /\ ~beats /\ counters' = counters
                  \/ /\ w.place = Around(c)[2] /\ beats /\ counters[c] = recorder[t].seen
                     /\ counters' = [counters EXCEPT ![c] = recorder[t].adds.sum]
  <2>1. PICK to \in Places : to = Around(c)[2]
    BY <1>1
  <2>2. ExchangeExtreme(t, c, c, beats, to) /\ to \notin {"idle", "add"}
    BY <1>1, <2>1
  <2> QED
    BY <2>1, <2>2, ExchangeMoves
<1>3. begun' = begun /\ recorder[t].place = c
  BY DEF ExchangeExtreme, countVars
<1>4. PICK best : best = Counts(begun)
  OBVIOUS
<1>5. counters \in Tallies /\ \A k \in Counters : k # c => counters'[k] = counters[k]
  BY <1>2 DEF LatencyTypes, Tallies
<1>6. ASSUME NEW k \in Counted PROVE counters'[k] + Cardinality(Coming(k)') = Counts(begun')[k]
  <2>1. counters'[k] = counters[k]
    BY <1>5 DEF Counters, Counted
  <2> QED
    BY <1>2, <1>3, <2>1, SumsStay
<1>7. ASSUME NEW k \in {"min", "max"} PROVE Held(k, counters'[k], best[k], recorder')
  <2>1. counters[k] \in Nat /\ best[k] \in Nat
    BY <1>4, CountsIs DEF LatencyTypes, Tallies, Counters
  <2>2. Held(k, counters[k], best[k], recorder)
    BY <1>4 DEF Exact
  <2>3. CASE k # c
    <3>1. Owes(recorder[t], k) <=> Owes(w, k)
      BY <1>2, <1>3, <2>3 DEF Owes, Around
    <3>2. w.place # k
      BY <1>2, <2>3 DEF Around
    <3>3. Held(k, counters[k], best[k], recorder')
      <4>1. recorder'[t] = w /\ w.adds = recorder[t].adds
        BY <1>2, Threads
      <4>2. OnlyIn(t, recorder, recorder')
        BY <1>2, Threads
      <4> QED
        BY <2>1, <2>2, <3>1, <3>2, <4>1, <4>2, HeldOn
    <3> QED
      BY <1>5, <2>3, <3>3 DEF Counters
  <2>4. CASE k = c /\ w.place = c
    <3>1. w.seen = counters[c] /\ counters' = counters
      BY <1>2, <2>4 DEF Around
    <3>2. Owes(recorder[t], k) <=> Owes(w, k)
      BY <1>3, <2>4 DEF Owes
    <3>3. Held(k, counters[k], best[k], recorder')
      <4>1. OnlyIn(t, recorder, recorder') /\ recorder'[t] = w
        BY <1>2, Threads
      <4>2. /\ Owes(recorder[t], k) <=> Owes(recorder'[t], k)
            /\ recorder'[t].adds = recorder[t].adds /\ recorder'[t].seen = counters[k]
        BY <1>2, <2>4, <3>1, <3>2, <4>1
      <4> QED
        BY ONLY <4>1, <4>2, <2>1, <2>2, t \in Recorders, k \in {"min", "max"}, HeldOn
    <3> QED
      BY <3>1, <3>3
  <2>5. CASE k = c /\ w.place = Around(c)[2]
    <3>1. Owes(recorder[t], k) /\ ~Owes(w, k) /\ w.place # k
      BY <1>3, <2>5 DEF Owes, Around
    <3>2. PICK now, s, seen : now = counters'[c] /\ s = recorder[t].adds.sum /\ seen = recorder[t].seen
      OBVIOUS
    <3>3. s \in Nat /\ seen \in Nat
      BY <1>2, <3>2, Threads DEF OnlyIn, Measured
    <3>4. Best(c, counters[c], seen)
      BY <1>3, <2>2, <2>5, <3>2 DEF Held
    <3>5. \/ now = counters[c] /\ Best(c, counters[c], s)
          \/ now = s /\ Best(c, now, counters[c])
      <4>1. CASE ~beats /\ counters' = counters
        <5>1. Best(c, seen, s)
          BY <3>2, <4>1
        <5> QED
          BY <2>1, <2>5, <3>2, <3>3, <3>4, <4>1, <5>1 DEF Best
      <4>2. CASE beats /\ counters[c] = seen /\ counters' = [counters EXCEPT ![c] = s]
        <5>1. ~Best(c, seen, s) /\ now = s
          BY <1>1, <1>5, <3>2, <4>2 DEF Tallies
        <5> QED
          BY <3>3, <4>2, <5>1 DEF Best
      <4> QED
        BY <1>2, <2>5, <3>2, <4>1, <4>2 DEF Around
    <3>6. now \in Nat
      BY <2>1, <2>5, <3>3, <3>5
    <3>7. Held(k, now, best[k], recorder')
      <4>1. OnlyIn(t, recorder, recorder') /\ recorder'[t] = w
        BY <1>2, Threads
      <4>2. Owes(recorder[t], k) /\ ~Owes(recorder'[t], k) /\ recorder'[t].place # k
        BY <3>1, <4>1
      <4> QED
        BY ONLY <4>1, <4>2, <2>1, <2>2, <2>5, <3>2, <3>5, <3>6, t \in Recorders, k \in {"min", "max"}, HeldEnds
    <3> QED
      BY <2>5, <3>2, <3>7
  <2> QED
    BY <1>2, <2>3, <2>4, <2>5
<1> QED
  BY <1>3, <1>4, <1>6, <1>7 DEF Exact

LEMMA ExactPushes ==
    ASSUME LatencyTypes, Exact, NEW t \in Recorders, PushSample(t)
    PROVE  Exact'
<1>1. Turns(t, Idle) /\ Idle.place = "idle" /\ Idle.todo = {} /\ recorder[t].todo = {}
  BY PushMoves
<1>2. PICK w : w = Idle
  OBVIOUS
<1>3. counters' = counters /\ begun' = begun /\ recorder[t].place = "push"
  BY DEF PushSample, countVars
<1>4. PICK best : best = Counts(begun)
  OBVIOUS
<1>5. ASSUME NEW k \in Counted PROVE counters'[k] + Cardinality(Coming(k)') = Counts(begun')[k]
  BY <1>1, <1>2, <1>3, SumsStay
<1>6. ASSUME NEW k \in {"min", "max"} PROVE Held(k, counters'[k], best[k], recorder')
  <2>1. counters[k] \in Nat /\ best[k] \in Nat
    BY <1>4, CountsIs DEF LatencyTypes, Tallies, Counters
  <2>2. ~Owes(recorder[t], k) /\ ~Owes(w, k) /\ w.place # k
    BY <1>1, <1>2, <1>3 DEF Owes
  <2>3. Held(k, counters[k], best[k], recorder)
    BY <1>4 DEF Exact
  <2>4. Held(k, counters[k], best[k], recorder')
    <3>1. OnlyIn(t, recorder, recorder') /\ recorder'[t] = w
      BY <1>1, <1>2, Threads
    <3>2. ~Owes(recorder[t], k) /\ ~Owes(recorder'[t], k) /\ recorder'[t].place # k
      BY <2>2, <3>1
    <3> QED
      BY ONLY <3>1, <3>2, <2>1, <2>3, t \in Recorders, k \in {"min", "max"}, HeldOn
  <2> QED
    BY <1>3, <2>4
<1> QED
  BY <1>3, <1>4, <1>5, <1>6 DEF Exact

LEMMA CountInvInit == LatencyInit => CountInv
<1> SUFFICES ASSUME LatencyInit PROVE CountInv
  OBVIOUS
<1>1. Busy = {} /\ counters = Counts(begun) /\ resetting = <<>>
  BY DEF LatencyInit, Busy, Idle
<1> QED
  BY <1>1, LatencyTypesInit, ExactOfEqual DEF CountInv

LEMMA CountInvStep == LatencyTypes /\ LatencyTypes' /\ CountInv /\ [LatencyNext]_latencyVars => CountInv'
<1> SUFFICES ASSUME LatencyTypes, LatencyTypes', CountInv, [LatencyNext]_latencyVars PROVE CountInv'
  OBVIOUS
<1>1. ASSUME NEW t \in Recorders, NEW r \in Results, BeginRecord(t, r) PROVE CountInv'
  BY <1>1, ExactBegins DEF BeginRecord, CountInv
<1>2. ASSUME NEW t \in Recorders, recorder[t].place # "idle", Exact => Exact',
             resetting' = resetting, crossed' = crossed
      PROVE  CountInv'
  BY <1>2 DEF CountInv, Busy
<1>3. ASSUME NEW t \in Recorders, NEW group \in Groups, Add(t, group) PROVE CountInv'
  BY <1>2, <1>3, ExactAdds DEF Add, countVars
<1>4. ASSUME NEW t \in Recorders, UpdateMin(t) PROVE CountInv'
  <2>1. CASE LoadExtreme(t, "loadMin", "min", "min")
    <3>1. LoadExtreme(t, Around("min")[1], "min", "min")
      BY <2>1, Zenon DEF Around
    <3> QED
      BY <1>2, <2>1, <3>1, ExactLoads DEF LoadExtreme, countVars
  <2>2. CASE ExchangeExtreme(t, "min", "min", recorder[t].adds.sum < recorder[t].seen, "loadMax")
    <3> DEFINE beats == recorder[t].adds.sum < recorder[t].seen
    <3>1. beats \in BOOLEAN
      OBVIOUS
    <3>2. beats <=> ~Best("min", recorder[t].seen, recorder[t].adds.sum)
      BY ThreadIs DEF Best, Thread, Counted
    <3> HIDE DEF beats
    <3>3. ExchangeExtreme(t, "min", "min", beats, Around("min")[2])
      BY <2>2, Zenon DEF beats, Around
    <3> QED
      BY <1>2, <2>2, <3>1, <3>2, <3>3, ExactExchanges DEF ExchangeExtreme, countVars
  <2> QED
    BY <1>4, <2>1, <2>2 DEF UpdateMin
<1>5. ASSUME NEW t \in Recorders, UpdateMax(t) PROVE CountInv'
  <2>1. CASE LoadExtreme(t, "loadMax", "max", "max")
    <3>1. LoadExtreme(t, Around("max")[1], "max", "max")
      BY <2>1, Zenon DEF Around
    <3> QED
      BY <1>2, <2>1, <3>1, ExactLoads DEF LoadExtreme, countVars
  <2>2. CASE ExchangeExtreme(t, "max", "max", recorder[t].adds.sum > recorder[t].seen, "push")
    <3> DEFINE beats == recorder[t].adds.sum > recorder[t].seen
    <3>1. beats \in BOOLEAN
      OBVIOUS
    <3>2. beats <=> ~Best("max", recorder[t].seen, recorder[t].adds.sum)
      BY ThreadIs DEF Best, Thread, Counted
    <3> HIDE DEF beats
    <3>3. ExchangeExtreme(t, "max", "max", beats, Around("max")[2])
      BY <2>2, Zenon DEF beats, Around
    <3> QED
      BY <1>2, <2>2, <3>1, <3>2, <3>3, ExactExchanges DEF ExchangeExtreme, countVars
  <2> QED
    BY <1>5, <2>1, <2>2 DEF UpdateMax
<1>6. ASSUME NEW t \in Recorders, PushSample(t) PROVE CountInv'
  BY <1>2, <1>6, ExactPushes DEF PushSample, countVars
<1>7. ASSUME UNCHANGED <<counters, recorder, begun, resetting, crossed>> PROVE CountInv'
  BY <1>7 DEF CountInv, Exact, Coming, Busy
<1>8. CASE BeginSnapshot \/ TakePercentile \/ UNCHANGED latencyVars
  BY <1>7, <1>8 DEF BeginSnapshot, TakePercentile, latencyVars, sampleVars
<1>9. ASSUME NEW c \in Loaded, LoadCounter(c) PROVE CountInv'
  BY <1>7, <1>9 DEF LoadCounter
<1>10. CASE BeginReset
  <2> SUFFICES ASSUME ~crossed' PROVE CountInv'
    BY DEF CountInv
  <2>1. Busy' = {} /\ begun' = <<>> /\ resetting' = ResetOrder
    BY <1>10 DEF BeginReset, Busy
  <2>2. \A c \in Counters : \E i \in 1..8 : ResetOrder[i] = c
    BY DEF Counters, Counted, ResetOrder
  <2>3. resetting' # <<>> /\ Len(resetting') = 8
    BY <2>1 DEF ResetOrder
  <2> QED
    BY <2>1, <2>2, <2>3 DEF CountInv
<1>11. CASE ResetNext
  <2> SUFFICES ASSUME ~crossed' PROVE CountInv'
    BY DEF CountInv
  <2>1. PICK n \in Nat : n = Len(resetting') /\ Len(resetting) = n + 1
                         /\ \A i \in 1..n : resetting'[i] = resetting[i + 1]
    <3>1. resetting # <<>> /\ resetting' = Tail(resetting) /\ resetting \in Seq(Counters \cup {"samples"})
      BY <1>11 DEF ResetNext, LatencyTypes
    <3> QED
      BY <3>1, HeadTailProperties, LenProperties
  <2>2. PICK x : x = Head(resetting) /\ x = resetting[1]
    OBVIOUS
  <2>3. Busy' = {} /\ begun' = <<>> /\ Busy = {} /\ begun = <<>>
        /\ \A c \in Counters : counters[c] = Zero[c] \/ \E i \in 1..(n + 1) : resetting[i] = c
    BY <1>11, <2>1 DEF ResetNext, CountInv, Busy
  <2>4. \A c \in Counters : counters'[c] = IF c = x THEN Zero[c] ELSE counters[c]
    BY <1>11, <2>2 DEF ResetNext, LatencyTypes, Tallies, Counters, Counted
  <2>5. ASSUME NEW c \in Counters PROVE counters'[c] = Zero[c] \/ \E i \in 1..n : resetting'[i] = c
    <3>1. CASE c = x
      BY <2>4, <3>1
    <3>2. ASSUME c # x, NEW i \in 1..(n + 1), resetting[i] = c PROVE \E j \in 1..n : resetting'[j] = c
      <4>1. i # 1
        BY <2>2, <3>2
      <4>2. i - 1 \in 1..n /\ (i - 1) + 1 = i
        BY <4>1
      <4> QED
        BY <2>1, <3>2, <4>2
    <3> QED
      BY <2>3, <2>4, <3>1, <3>2
  <2>6. CASE resetting' = <<>>
    <3>1. n = 0 /\ 1..0 = {}
      BY <2>1, <2>6
    <3>2. counters' = Zero
      <4>1. \A c \in Counters : counters'[c] = Zero[c]
        BY <2>5, <3>1
      <4> QED
        BY <4>1, ZeroIs DEF LatencyTypes, Tallies
    <3>3. counters' = Counts(begun')
      BY <2>3, <3>2, CountsOfNone
    <3>4. Exact'
      <4>1. \A c \in Counted : Coming(c)' = Coming(c)
        BY <1>11 DEF ResetNext, Coming
      <4>2. recorder' = recorder
        BY <1>11 DEF ResetNext
      <4>3. PICK k : k = counters' /\ k \in Tallies /\ k = Counts(begun')
        BY <3>3 DEF LatencyTypes
      <4>4. ASSUME NEW c \in Counted PROVE k[c] + Cardinality(Coming(c)') = k[c]
        <5>1. k[c] \in Nat /\ Cardinality(Coming(c)') = 0
          BY <2>3, <4>1, <4>3, QuietIs DEF Tallies, Counters
        <5> QED
          BY <5>1
      <4>5. ASSUME NEW c \in {"min", "max"} PROVE Held(c, k[c], k[c], recorder')
        <5>1. k[c] \in Nat
          BY <4>3 DEF Tallies, Counters
        <5> QED
          BY <2>3, <4>2, <5>1, QuietIs DEF Held, Best
      <4> QED
        BY <4>3, <4>4, <4>5 DEF Exact
    <3> QED
      BY <2>6, <3>4 DEF CountInv
  <2>7. CASE resetting' # <<>>
    BY <2>1, <2>3, <2>5, <2>7 DEF CountInv
  <2> QED
    BY <2>6, <2>7
<1> QED
  BY <1>1, <1>3, <1>4, <1>5, <1>6, <1>8, <1>9, <1>10, <1>11 DEF LatencyNext

LEMMA CountersHold == LatencyTypes /\ CountInv => CountersExactAtRest
BY EqualOfExact DEF CountInv, CountersExactAtRest

\* What a snapshot has loaded and will load, from no less than the counters when it began.
Floor(L, count, met, todo, got, now) ==
    /\ count.total <= L.total + met /\ count.total <= L.ok + L.failed + met
    /\ \A c \in todo : L[c] <= now[c]
    /\ \A c \in Loaded \ todo : L[c] <= got[c] /\ got[c] <= count[c]

SnapInv ==
    /\ Reading /\ ~reader.crossed =>
          /\ ~crossed
          /\ \E L \in [Loaded -> Nat] : Floor(L, Counts(begun), reader.met, reader.todo, reader.got, counters)
    /\ SnapshotOffByRecordsMet

LEMMA TalliesIs ==
    ASSUME NEW n \in Tallies
    PROVE  /\ n.total \in Nat /\ n.ok \in Nat /\ n.failed \in Nat
           /\ \A c \in Loaded : n[c] \in Nat
BY DEF Tallies, Counters, Counted, Loaded

\* Every thread under way is missing from at most one of the outcomes.
LEMMA MissingAtMostMet ==
    ASSUME LatencyTypes
    PROVE  /\ Cardinality(Coming("total")) \in Nat /\ Cardinality(Coming("ok")) \in Nat
           /\ Cardinality(Coming("failed")) \in Nat
           /\ Cardinality(Coming("total")) <= Cardinality(Busy)
           /\ Cardinality(Coming("ok")) + Cardinality(Coming("failed")) <= Cardinality(Busy)
<1> DEFINE M == Busy \X {1}
<1>1. IsFiniteSet(M) /\ Cardinality(M) = Cardinality(Busy) /\ Cardinality(Busy) \in Nat
  <2>1. IsFiniteSet({1}) /\ Cardinality({1}) = 1
    BY FS_Singleton
  <2>2. IsFiniteSet(M) /\ Cardinality(M) = Cardinality(Busy) * 1
    BY <2>1, BusyIs, FS_Product
  <2> QED
    BY <2>2, BusyIs
<1>2. ASSUME NEW t \in Recorders, NEW c \in {"total", "ok", "failed"}, NEW i \in 1..U64Max,
             i <= Weight(recorder[t], c)
      PROVE  /\ t \in Busy /\ i = 1 /\ recorder[t].adds \in Records /\ recorder[t].adds[c] = 1
  <2>1. recorder[t].todo # {}
    BY <1>2 DEF Weight, Waiting
  <2>2. recorder[t].place = "add" /\ recorder[t].adds \in Records
    BY <2>1, ThreadIs
  <2>3. Weight(recorder[t], c) = 0 \/ Weight(recorder[t], c) = recorder[t].adds[c]
    BY DEF Weight
  <2>4. recorder[t].adds[c] \in {0, 1}
    BY <2>2, RecordIs
  <2> QED
    BY <1>2, <2>2, <2>3, <2>4, ZeroIs DEF Busy
<1>3. \A c \in {"total", "ok", "failed"} : Coming(c) \subseteq M
  <2> SUFFICES ASSUME NEW c \in {"total", "ok", "failed"}, NEW x \in Coming(c) PROVE x \in M
    OBVIOUS
  <2>1. PICK t \in Recorders, i \in 1..U64Max : x = <<t, i>> /\ i <= Weight(recorder[t], c)
    BY DEF Coming
  <2> QED
    BY <1>2, <2>1
<1>4. Coming("ok") \cap Coming("failed") = {}
  <2> SUFFICES ASSUME NEW x \in Coming("ok"), x \in Coming("failed") PROVE FALSE
    OBVIOUS
  <2>1. PICK t \in Recorders, i \in 1..U64Max :
            x = <<t, i>> /\ i <= Weight(recorder[t], "ok") /\ i <= Weight(recorder[t], "failed")
    BY DEF Coming
  <2>2. recorder[t].adds \in Records /\ recorder[t].adds["ok"] = 1 /\ recorder[t].adds["failed"] = 1
    BY <1>2, <2>1
  <2> QED
    BY <2>2, RecordIs
<1>5. PICK A, B, C, S : A = Coming("total") /\ B = Coming("ok") /\ C = Coming("failed") /\ S = M
  OBVIOUS
<1> HIDE DEF M
<1>6. A \in SUBSET S /\ B \in SUBSET S /\ C \in SUBSET S /\ B \cap C = {} /\ (B \cup C) \in SUBSET S
      /\ IsFiniteSet(S)
  BY <1>1, <1>3, <1>4, <1>5
<1>7. /\ IsFiniteSet(A) /\ Cardinality(A) <= Cardinality(S)
      /\ IsFiniteSet(B) /\ IsFiniteSet(C) /\ Cardinality(B \cup C) <= Cardinality(S)
  BY <1>6, FS_Subset
<1>8. Cardinality(B \cup C) = Cardinality(B) + Cardinality(C) - Cardinality({})
  BY <1>6, <1>7, FS_Union
<1>9. Cardinality({}) = 0 /\ Cardinality(A) \in Nat /\ Cardinality(B) \in Nat /\ Cardinality(C) \in Nat
  BY <1>7, FS_EmptySet, FS_CardinalityType
<1> QED
  BY <1>1, <1>5, <1>7, <1>8, <1>9

LEMMA SnapBegins ==
    ASSUME LatencyTypes, CountInv, BeginSnapshot
    PROVE  SnapInv'
<1>1. /\ reader'.todo = Loaded /\ reader'.met = Cardinality(Busy) /\ reader'.crossed = crossed
      /\ counters' = counters /\ begun' = begun /\ crossed' = crossed /\ resetting = <<>>
  BY DEF BeginSnapshot, NoReader
<1>2. Reading'
  BY <1>1 DEF Reading, Loaded
<1>3. ASSUME ~crossed
      PROVE  \E L \in [Loaded -> Nat] :
                 Floor(L, Counts(begun'), reader'.met, reader'.todo, reader'.got, counters')
  <2>1. Exact
    BY <1>1, <1>3 DEF CountInv
  <2>2. PICK n, met : n = Counts(begun) /\ met = Cardinality(Busy)
    OBVIOUS
  <2>3. n \in Tallies /\ counters \in Tallies /\ n.total = n.ok + n.failed /\ met \in Nat
    BY <2>2, CountsIs, BusyIs DEF LatencyTypes
  <2>4. /\ counters.total + Cardinality(Coming("total")) = n.total
        /\ counters.ok + Cardinality(Coming("ok")) = n.ok
        /\ counters.failed + Cardinality(Coming("failed")) = n.failed
    BY <2>1, <2>2 DEF Exact, Counted
  <2> DEFINE L == [c \in Loaded |-> counters[c]]
  <2>5. L \in [Loaded -> Nat]
    BY <2>3, TalliesIs
  <2>6. L.total = counters.total /\ L.ok = counters.ok /\ L.failed = counters.failed
    BY DEF Loaded
  <2>7. n.total <= L.total + met /\ n.total <= L.ok + L.failed + met
    BY <2>2, <2>3, <2>4, <2>6, MissingAtMostMet, TalliesIs
  <2>8. \A c \in Loaded : L[c] <= counters[c]
    BY <2>3, TalliesIs
  <2> HIDE DEF L
  <2>9. Floor(L, n, met, Loaded, reader'.got, counters)
    BY <2>7, <2>8 DEF Floor
  <2> QED
    BY <1>1, <2>2, <2>5, <2>9
<1> QED
  BY <1>1, <1>2, <1>3 DEF SnapInv, SnapshotOffByRecordsMet

LEMMA SnapLoads ==
    ASSUME LatencyTypes, CountInv, SnapInv, NEW c \in Loaded, LoadCounter(c)
    PROVE  SnapInv'
<1>1. PICK v, k : v = reader /\ k = counters
  OBVIOUS
<1>2. v \in [todo : SUBSET Loaded, got : [Loaded -> Nat], met : Nat, crossed : BOOLEAN] /\ k \in Tallies
  BY <1>1 DEF LatencyTypes
<1>3. c \in v.todo /\ reader' = [v EXCEPT !.todo = @ \ {c}, !.got[c] = k[c]]
      /\ counters' = k /\ begun' = begun /\ crossed' = crossed
  BY <1>1 DEF LoadCounter
<1>4. /\ reader'.todo = v.todo \ {c} /\ reader'.met = v.met /\ reader'.crossed = v.crossed
      /\ \A d \in Loaded : reader'.got[d] = IF d = c THEN k[c] ELSE v.got[d]
  BY <1>2, <1>3
<1>5. Reading /\ resetting = <<>>
  BY <1>1, <1>3 DEF Reading, LatencyTypes
<1>6. CASE v.crossed
  BY <1>4, <1>6 DEF SnapInv, SnapshotOffByRecordsMet
<1>7. CASE ~v.crossed
  <2>1. PICK n : n = Counts(begun)
    OBVIOUS
  <2>2. n \in Tallies /\ n.total = n.ok + n.failed
    BY <2>1, CountsIs DEF LatencyTypes
  <2>3. ~crossed
    BY <1>1, <1>5, <1>7 DEF SnapInv
  <2>4. PICK L \in [Loaded -> Nat] : Floor(L, n, v.met, v.todo, v.got, k)
    BY <1>1, <1>5, <1>7, <2>1 DEF SnapInv
  <2>5. k[c] <= n[c]
    <3>1. c \in Counted /\ Exact
      BY <1>5, <2>3 DEF Loaded, Counted, CountInv
    <3>2. k[c] + Cardinality(Coming(c)) = n[c]
      BY <1>1, <2>1, <3>1 DEF Exact
    <3>3. Cardinality(Coming(c)) \in Nat
      BY MissingAtMostMet DEF Loaded
    <3> QED
      BY <1>2, <3>2, <3>3, TalliesIs
  <2>6. PICK got, todo : got = reader'.got /\ todo = reader'.todo
    OBVIOUS
  <2>7. Floor(L, n, v.met, todo, got, k)
    <3>1. ASSUME NEW d \in Loaded \ todo PROVE L[d] <= got[d] /\ got[d] <= n[d]
      <4>1. CASE d = c
        BY <1>3, <1>4, <2>4, <2>5, <2>6, <4>1 DEF Floor
      <4>2. CASE d # c
        BY <1>4, <2>4, <2>6, <3>1, <4>2 DEF Floor
      <4> QED
        BY <4>1, <4>2
    <3> QED
      BY <1>4, <2>4, <2>6, <3>1 DEF Floor
  <2>8. ASSUME todo = {}
        PROVE  (got.ok + got.failed) - got.total <= v.met /\ got.total - (got.ok + got.failed) <= v.met
    <3>1. \A d \in Loaded : L[d] <= got[d] /\ got[d] <= n[d] /\ got[d] \in Nat /\ L[d] \in Nat
      BY <1>2, <1>4, <2>6, <2>7, <2>8, TalliesIs DEF Floor
    <3>2. /\ L.total <= got.total /\ got.total <= n.total /\ got.total \in Nat /\ L.total \in Nat
          /\ L.ok <= got.ok /\ got.ok <= n.ok /\ got.ok \in Nat /\ L.ok \in Nat
          /\ L.failed <= got.failed /\ got.failed <= n.failed /\ got.failed \in Nat /\ L.failed \in Nat
      BY <3>1 DEF Loaded
    <3>3. n.total <= L.total + v.met /\ n.total <= L.ok + L.failed + v.met /\ v.met \in Nat
      BY <1>2, <2>7 DEF Floor
    <3>4. n.total \in Nat /\ n.ok \in Nat /\ n.failed \in Nat
      BY <2>2, TalliesIs
    <3> QED
      BY ONLY <2>2, <3>2, <3>3, <3>4
  <2>9. SnapshotOffByRecordsMet'
    BY <1>4, <2>6, <2>8 DEF SnapshotOffByRecordsMet, Reading
  <2>10. ~crossed' /\ \E X \in [Loaded -> Nat] :
             Floor(X, Counts(begun'), reader'.met, reader'.todo, reader'.got, counters')
    BY <1>3, <1>4, <2>1, <2>3, <2>6, <2>7
  <2> QED
    BY <2>9, <2>10 DEF SnapInv
<1> QED
  BY <1>6, <1>7

LEMMA SnapMeets ==
    ASSUME LatencyTypes, SnapInv, NEW t \in Recorders, NEW r \in Results, BeginRecord(t, r)
    PROVE  SnapInv'
<1>1. PICK v, n, a, m : v = reader /\ n = Counts(begun) /\ a = Adds(r)
                        /\ m = IF Reading THEN v.met + 1 ELSE v.met
  OBVIOUS
<1>2. v \in [todo : SUBSET Loaded, got : [Loaded -> Nat], met : Nat, crossed : BOOLEAN]
      /\ n \in Tallies /\ a \in Records /\ m \in Nat
  BY <1>1, CountsIs DEF LatencyTypes, Records
<1>3. /\ reader' = [v EXCEPT !.met = m] /\ counters' = counters
      /\ Counts(begun') = CountOne(n, a) /\ (resetting = <<>> => crossed' = crossed)
  BY <1>1, <1>2, CountsAppend DEF BeginRecord, LatencyTypes
<1>4. reader'.todo = v.todo /\ reader'.got = v.got /\ reader'.met = m /\ reader'.crossed = v.crossed
  BY <1>2, <1>3
<1>5. CASE ~Reading
  BY <1>1, <1>4, <1>5 DEF Reading, SnapInv, SnapshotOffByRecordsMet
<1>6. CASE Reading /\ v.crossed
  BY <1>1, <1>4, <1>6 DEF Reading, SnapInv, SnapshotOffByRecordsMet
<1>7. CASE Reading /\ ~v.crossed
  <2>1. ~crossed' /\ Reading'
    BY <1>1, <1>3, <1>4, <1>7 DEF SnapInv, Reading, LatencyTypes
  <2>2. PICK L \in [Loaded -> Nat] : Floor(L, n, v.met, v.todo, v.got, counters)
    BY <1>1, <1>7 DEF SnapInv
  <2>3. PICK next : next = CountOne(n, a)
    OBVIOUS
  <2>4. \A c \in Loaded : next[c] \in Nat /\ n[c] <= next[c]
    <3>1. \A c \in Loaded : c \in Counted /\ next[c] = n[c] + a[c] /\ a[c] \in Nat
      BY <1>2, <2>3, CountOneIs, RecordIs DEF Loaded, Counted
    <3> QED
      BY <1>2, <3>1, TalliesIs
  <2>5. next.total = n.total + 1 /\ n.total \in Nat
    <3>1. "total" \in Counted
      BY DEF Counted
    <3> QED
      BY <1>2, <2>3, <3>1, CountOneIs, RecordIs, TalliesIs
  <2>6. m = v.met + 1 /\ v.met \in Nat
    BY <1>1, <1>2, <1>7
  <2>7. Floor(L, next, m, v.todo, v.got, counters)
    <3>1. L.total \in Nat /\ L.ok \in Nat /\ L.failed \in Nat
      BY DEF Loaded
    <3>2. n.total <= L.total + v.met /\ n.total <= L.ok + L.failed + v.met
      BY <2>2 DEF Floor
    <3>3. next.total <= L.total + m /\ next.total <= L.ok + L.failed + m
      BY ONLY <2>5, <2>6, <3>1, <3>2
    <3>4. ASSUME NEW c \in Loaded \ v.todo PROVE L[c] <= v.got[c] /\ v.got[c] <= next[c]
      <4>1. L[c] <= v.got[c] /\ v.got[c] <= n[c] /\ n[c] <= next[c] /\ n[c] \in Nat /\ next[c] \in Nat
            /\ v.got[c] \in Nat
        BY <1>2, <2>2, <2>4, TalliesIs DEF Floor
      <4> QED
        BY ONLY <4>1
    <3> QED
      BY <2>2, <3>3, <3>4 DEF Floor
  <2> QED
    BY <1>3, <1>4, <2>1, <2>3, <2>7 DEF SnapInv, SnapshotOffByRecordsMet
<1> QED
  BY <1>5, <1>6, <1>7

\* No other step looks less to a snapshot.
LEMMA SnapStays ==
    ASSUME LatencyTypes, SnapInv, UNCHANGED <<reader, begun, crossed>>, LatencyTypes',
           Reading => \A c \in Loaded : counters[c] <= counters'[c]
    PROVE  SnapInv'
<1>1. SnapshotOffByRecordsMet'
  BY DEF SnapInv, SnapshotOffByRecordsMet, Reading
<1>2. ASSUME Reading, ~reader.crossed
      PROVE  ~crossed /\ \E L \in [Loaded -> Nat] :
                 Floor(L, Counts(begun), reader.met, reader.todo, reader.got, counters')
  <2>1. PICK L \in [Loaded -> Nat] : Floor(L, Counts(begun), reader.met, reader.todo, reader.got, counters)
    BY <1>2 DEF SnapInv
  <2>2. ASSUME NEW c \in reader.todo PROVE L[c] <= counters'[c]
    <3>1. c \in Loaded
      BY DEF LatencyTypes
    <3>2. L[c] <= counters[c] /\ counters[c] <= counters'[c] /\ L[c] \in Nat
          /\ counters[c] \in Nat /\ counters'[c] \in Nat
      BY <1>2, <2>1, <3>1, TalliesIs DEF Floor, LatencyTypes
    <3> QED
      BY ONLY <3>2
  <2>3. Floor(L, Counts(begun), reader.met, reader.todo, reader.got, counters')
    BY <2>1, <2>2 DEF Floor
  <2> QED
    BY <1>2, <2>3 DEF SnapInv
<1> QED
  BY <1>1, <1>2 DEF SnapInv, Reading

LEMMA SnapInvInit == LatencyInit => SnapInv
BY DEF LatencyInit, NoReader, SnapInv, Reading, SnapshotOffByRecordsMet, Loaded

LEMMA SnapInvStep ==
    LatencyTypes /\ LatencyTypes' /\ CountInv /\ SnapInv /\ [LatencyNext]_latencyVars => SnapInv'
<1> SUFFICES ASSUME LatencyTypes, LatencyTypes', CountInv, SnapInv, [LatencyNext]_latencyVars
             PROVE  SnapInv'
  OBVIOUS
<1>1. \A c \in Loaded : counters[c] \in Nat
  BY TalliesIs DEF LatencyTypes
<1>2. ASSUME NEW t \in Recorders, NEW r \in Results, BeginRecord(t, r) PROVE SnapInv'
  BY <1>2, SnapMeets
<1>3. ASSUME NEW t \in Recorders, NEW group \in Groups, Add(t, group) PROVE SnapInv'
  <2>1. recorder[t].adds \in [Counted -> Nat]
    BY ThreadIs DEF Thread
  <2>2. \A c \in Loaded : counters[c] <= counters'[c]
    <3>1. ASSUME NEW c \in Loaded PROVE counters[c] <= counters'[c]
      <4>1. c \in Counted /\ c \in Counters
        BY DEF Loaded, Counted, Counters
      <4>2. recorder[t].adds[c] \in Nat
        BY <2>1, <4>1
      <4>3. counters'[c] = IF c \in group THEN counters[c] + recorder[t].adds[c] ELSE counters[c]
        BY <1>3, <4>1 DEF Add
      <4> QED
        BY <1>1, <4>2, <4>3
    <3> QED
      BY <3>1
  <2> QED
    BY <1>3, <2>2, SnapStays DEF Add, countVars
<1>4. ASSUME UNCHANGED <<reader, begun, crossed, counters>> PROVE SnapInv'
  BY <1>1, <1>4, SnapStays
<1>5. ASSUME NEW t \in Recorders, NEW c \in {"min", "max"}, NEW from, NEW to,
             LoadExtreme(t, from, c, to)
      PROVE  SnapInv'
  BY <1>4, <1>5 DEF LoadExtreme, countVars
<1>6. ASSUME NEW t \in Recorders, NEW c \in {"min", "max"}, NEW beats \in BOOLEAN, NEW to,
             ExchangeExtreme(t, c, c, beats, to)
      PROVE  SnapInv'
  <2>1. \A d \in Loaded : counters'[d] = counters[d]
    BY <1>6 DEF ExchangeExtreme, Loaded, LatencyTypes, Tallies, Counters, Counted
  <2>2. \A d \in Loaded : counters[d] <= counters'[d]
    BY <1>1, <2>1
  <2> QED
    BY <1>6, <2>2, SnapStays DEF ExchangeExtreme, countVars
<1>7. ASSUME NEW t \in Recorders, UpdateMin(t) PROVE SnapInv'
  <2> DEFINE beats == recorder[t].adds.sum < recorder[t].seen
  <2>1. beats \in BOOLEAN
    OBVIOUS
  <2> HIDE DEF beats
  <2>2. LoadExtreme(t, "loadMin", "min", "min") \/ ExchangeExtreme(t, "min", "min", beats, "loadMax")
    BY <1>7, Zenon DEF UpdateMin, beats
  <2> QED
    BY <1>5, <1>6, <2>1, <2>2
<1>8. ASSUME NEW t \in Recorders, UpdateMax(t) PROVE SnapInv'
  <2> DEFINE beats == recorder[t].adds.sum > recorder[t].seen
  <2>1. beats \in BOOLEAN
    OBVIOUS
  <2> HIDE DEF beats
  <2>2. LoadExtreme(t, "loadMax", "max", "max") \/ ExchangeExtreme(t, "max", "max", beats, "push")
    BY <1>8, Zenon DEF UpdateMax, beats
  <2> QED
    BY <1>5, <1>6, <2>1, <2>2
<1>9. ASSUME NEW t \in Recorders, PushSample(t) PROVE SnapInv'
  BY <1>4, <1>9 DEF PushSample, countVars
<1>10. CASE BeginSnapshot
  BY <1>10, SnapBegins
<1>11. ASSUME NEW c \in Loaded, LoadCounter(c) PROVE SnapInv'
  BY <1>11, SnapLoads
<1>12. CASE TakePercentile \/ UNCHANGED latencyVars
  BY <1>4, <1>12 DEF TakePercentile, latencyVars
<1>13. CASE BeginReset
  BY <1>13 DEF BeginReset, SnapInv, SnapshotOffByRecordsMet, Reading
<1>14. CASE ResetNext
  <2>1. ~Reading
    BY <1>14 DEF ResetNext, LatencyTypes
  <2> QED
    BY <1>14, <2>1, SnapStays DEF ResetNext
<1> QED
  BY <1>2, <1>3, <1>7, <1>8, <1>9, <1>10, <1>11, <1>12, <1>13, <1>14 DEF LatencyNext

--------------------------------------------------------------------------------
(* Sequences of numbers in order.                                          *)
Sorts(p, f, n) ==
    /\ \A i, j \in 1..n : p[i] = p[j] => i = j
    /\ \A i, j \in 1..n : i <= j => f[p[i]] <= f[p[j]]

LEMMA LargestAt ==
    ASSUME NEW n \in Nat, n > 0, NEW f \in [1..n -> Nat]
    PROVE  \E m \in 1..n : \A i \in 1..n : f[i] <= f[m]
<1> DEFINE S == {k \in 0..n : k = 0 \/ \E m \in 1..k : \A i \in 1..k : f[i] <= f[m]}
<1>1. 0 \in S
  OBVIOUS
<1>2. ASSUME NEW k \in 0..(n - 1), k \in S PROVE k + 1 \in S
  <2>1. k + 1 \in 0..n
    OBVIOUS
  <2>2. CASE k = 0
    <3>1. 1 \in 1..(k + 1) /\ \A i \in 1..(k + 1) : i = 1
      BY <2>2
    <3>2. f[1] \in Nat
      OBVIOUS
    <3>3. \A i \in 1..(k + 1) : f[i] <= f[1]
      BY <3>1, <3>2
    <3> QED
      BY <2>1, <3>1, <3>3
  <2>3. ASSUME NEW m \in 1..k, \A i \in 1..k : f[i] <= f[m] PROVE k + 1 \in S
    <3>1. f[k + 1] \in Nat /\ f[m] \in Nat /\ \A i \in 1..k : f[i] \in Nat
      OBVIOUS
    <3>2. \A i \in 1..(k + 1) : i \in 1..k \/ i = k + 1
      OBVIOUS
    <3>3. CASE f[k + 1] <= f[m]
      <4>1. \A i \in 1..(k + 1) : f[i] <= f[m]
        BY <2>3, <3>2, <3>3
      <4>2. m \in 1..(k + 1)
        OBVIOUS
      <4> QED
        BY <2>1, <4>1, <4>2
    <3>4. CASE f[m] <= f[k + 1]
      <4>1. \A i \in 1..(k + 1) : f[i] <= f[k + 1]
        BY <2>3, <3>1, <3>2, <3>4
      <4>2. k + 1 \in 1..(k + 1)
        OBVIOUS
      <4> QED
        BY <2>1, <4>1, <4>2
    <3> QED
      BY <3>1, <3>3, <3>4
  <2> QED
    BY <1>2, <2>2, <2>3
<1>3. n \in S
  <2> HIDE DEF S
  <2>1. \A k \in 0..n : k \in S
    BY <1>1, <1>2, UpTo
  <2> QED
    BY <2>1
<1> QED
  BY <1>3

\* The greatest goes last, and what was last takes its place.
LEMMA SortsOneMore ==
    ASSUME NEW k \in Nat, NEW f \in [1..(k + 1) -> Nat],
           \A g \in [1..k -> Nat] : \E p \in [1..k -> 1..k] : Sorts(p, g, k)
    PROVE  \E p \in [1..(k + 1) -> 1..(k + 1)] : Sorts(p, f, k + 1)
<1>1. PICK m \in 1..(k + 1) : \A i \in 1..(k + 1) : f[i] <= f[m]
  <2>1. k + 1 \in Nat /\ k + 1 > 0
    OBVIOUS
  <2> QED
    BY <2>1, LargestAt
<1> DEFINE at == [i \in 1..k |-> IF i = m THEN k + 1 ELSE i]
           g == [i \in 1..k |-> f[at[i]]]
<1>2. /\ \A i \in 1..k : at[i] \in 1..(k + 1) /\ at[i] # m
      /\ \A i, j \in 1..k : at[i] = at[j] => i = j
  OBVIOUS
<1>3. g \in [1..k -> Nat] /\ \A i \in 1..k : g[i] = f[at[i]]
  BY <1>2
<1> HIDE DEF at, g
<1>4. PICK q \in [1..k -> 1..k] : Sorts(q, g, k)
  BY <1>3
<1> DEFINE p == [i \in 1..(k + 1) |-> IF i = k + 1 THEN m ELSE at[q[i]]]
<1>5. \A i \in 1..(k + 1) : i # k + 1 => i \in 1..k /\ q[i] \in 1..k
  BY <1>4
<1>6. p \in [1..(k + 1) -> 1..(k + 1)]
  BY <1>2, <1>5
<1>7. p[k + 1] = m /\ \A i \in 1..k : p[i] = at[q[i]] /\ q[i] \in 1..k /\ f[p[i]] = g[q[i]]
  <2>1. k + 1 \in 1..(k + 1) /\ \A i \in 1..k : i \in 1..(k + 1) /\ i # k + 1 /\ q[i] \in 1..k
    BY <1>4
  <2>2. p[k + 1] = m /\ \A i \in 1..k : p[i] = at[q[i]]
    BY <2>1
  <2> HIDE DEF p
  <2> QED
    BY <1>3, <2>1, <2>2
<1> HIDE DEF p
<1>8. ASSUME NEW i \in 1..(k + 1), NEW j \in 1..(k + 1), p[i] = p[j] PROVE i = j
  <2>1. CASE i \in 1..k /\ j \in 1..k
    <3>1. q[i] \in 1..k /\ q[j] \in 1..k /\ at[q[i]] = at[q[j]]
      BY <1>7, <1>8, <2>1
    <3>2. q[i] = q[j]
      BY <1>2, <3>1
    <3> QED
      BY <1>4, <2>1, <3>2 DEF Sorts
  <2>2. CASE i = k + 1 \/ j = k + 1
    <3>1. ASSUME NEW x \in 1..(k + 1), x # k + 1 PROVE p[x] # m
      <4>1. x \in 1..k
        BY <3>1
      <4>2. q[x] \in 1..k /\ p[x] = at[q[x]]
        BY <1>7, <4>1
      <4> QED
        BY <1>2, <4>2
    <3> QED
      BY <1>7, <1>8, <2>2, <3>1
  <2> QED
    BY <2>1, <2>2
<1>9. ASSUME NEW i \in 1..(k + 1), NEW j \in 1..(k + 1), i <= j PROVE f[p[i]] <= f[p[j]]
  <2>1. CASE j = k + 1
    <3>1. p[i] \in 1..(k + 1)
      BY <1>6
    <3> QED
      BY <1>1, <1>7, <2>1, <3>1
  <2>2. CASE j # k + 1
    <3>1. i \in 1..k /\ j \in 1..k
      BY <1>9, <2>2
    <3> QED
      BY <1>4, <1>7, <1>9, <3>1 DEF Sorts
  <2> QED
    BY <2>1, <2>2
<1> QED
  BY <1>6, <1>8, <1>9 DEF Sorts

LEMMA SortExists ==
    ASSUME NEW n \in Nat, NEW f \in [1..n -> Nat]
    PROVE  \E p \in [1..n -> 1..n] : Sorts(p, f, n)
<1> DEFINE S == {k \in 0..n : \A g \in [1..k -> Nat] : \E p \in [1..k -> 1..k] : Sorts(p, g, k)}
<1>1. 0 \in S
  <2>1. 1..0 = {}
    OBVIOUS
  <2>2. ASSUME NEW g \in [1..0 -> Nat] PROVE \E p \in [1..0 -> 1..0] : Sorts(p, g, 0)
    <3>1. [i \in 1..0 |-> i] \in [1..0 -> 1..0]
      OBVIOUS
    <3>2. Sorts([i \in 1..0 |-> i], g, 0)
      BY <2>1 DEF Sorts
    <3> QED
      BY <3>1, <3>2
  <2> QED
    BY <2>2
<1>2. ASSUME NEW k \in 0..(n - 1), k \in S PROVE k + 1 \in S
  <2>1. k \in Nat /\ k + 1 \in 0..n
    OBVIOUS
  <2>2. \A g \in [1..k -> Nat] : \E p \in [1..k -> 1..k] : Sorts(p, g, k)
    BY <1>2
  <2>3. \A g \in [1..(k + 1) -> Nat] : \E p \in [1..(k + 1) -> 1..(k + 1)] : Sorts(p, g, k + 1)
    BY <2>1, <2>2, SortsOneMore, Zenon
  <2> QED
    BY <2>1, <2>3
<1>3. n \in S
  <2> HIDE DEF S
  <2>1. \A k \in 0..n : k \in S
    BY <1>1, <1>2, UpTo
  <2> QED
    BY <2>1
<1> QED
  BY <1>3

LEMMA Onto ==
    ASSUME NEW n \in Nat, NEW p \in [1..n -> 1..n], \A i, j \in 1..n : p[i] = p[j] => i = j
    PROVE  \A i \in 1..n : \E j \in 1..n : p[j] = i
<1>1. IsFiniteSet(1..n)
  BY FS_Interval
<1>2. p \in Injection(1..n, 1..n)
  BY DEF Injection, IsInjective
<1>3. p \in Surjection(1..n, 1..n)
  BY <1>1, <1>2, FS_Injection
<1> QED
  BY <1>3 DEF Surjection

LEMMA SameSize ==
    ASSUME NEW A, NEW B, IsFiniteSet(A), NEW p,
           \A i \in A : p[i] \in B, \A b \in B : \E i \in A : p[i] = b,
           \A i, j \in A : p[i] = p[j] => i = j
    PROVE  Cardinality(A) = Cardinality(B) /\ IsFiniteSet(B)
<1> DEFINE g == [i \in A |-> p[i]]
<1>1. g \in Bijection(A, B)
  BY DEF Bijection, Injection, Surjection, IsInjective
<1> QED
  BY <1>1, FS_Bijection DEF ExistsBijection

Numbers == Seq(Nat)

LEMMA NumbersIs ==
    ASSUME NEW s \in Numbers
    PROVE  /\ Len(s) \in Nat /\ DOMAIN s = 1..Len(s) /\ s \in [1..Len(s) -> Nat]
           /\ \A i \in 1..Len(s) : s[i] \in Nat
BY LenProperties DEF Numbers

LEMMA InOrderIs ==
    ASSUME NEW s \in Numbers
    PROVE  \E n \in Nat : n = Len(s) /\ \E p \in [1..n -> 1..n] :
               Sorts(p, s, n) /\ InOrder(s) = [i \in 1..n |-> s[p[i]]]
<1>1. PICK n \in Nat : n = Len(s) /\ DOMAIN s = 1..n /\ s \in [1..n -> Nat]
  BY NumbersIs
<1> DEFINE P(q) == q \in {x \in [1..n -> 1..n] : IsInjective(x)}
                   /\ \A i, j \in 1..n : i <= j => s[q[i]] <= s[q[j]]
           order == CHOOSE q \in {x \in [1..n -> 1..n] : IsInjective(x)} :
                        \A i, j \in 1..n : i <= j => s[q[i]] <= s[q[j]]
<1>2. PICK q \in [1..n -> 1..n] : Sorts(q, s, n)
  BY <1>1, SortExists
<1>3. IsInjective(q) /\ \A i, j \in 1..n : i <= j => s[q[i]] <= s[q[j]]
  BY <1>2 DEF IsInjective, Sorts
<1>4. /\ order \in {x \in [1..n -> 1..n] : IsInjective(x)}
      /\ \A i, j \in 1..n : i <= j => s[order[i]] <= s[order[j]]
  BY <1>3
<1>5. InOrder(s) = [i \in 1..n |-> s[order[i]]]
  BY <1>1 DEF InOrder
<1> HIDE DEF order
<1>6. order \in [1..n -> 1..n] /\ Sorts(order, s, n)
  BY <1>4 DEF IsInjective, Sorts
<1> QED
  BY <1>1, <1>5, <1>6

NoMore(s, x) == {i \in DOMAIN s : s[i] <= x}
Less(s, x) == {i \in DOMAIN s : s[i] < x}

LEMMA SharesAreFinite ==
    ASSUME NEW s \in Numbers, NEW x
    PROVE  /\ IsFiniteSet(NoMore(s, x)) /\ Cardinality(NoMore(s, x)) \in Nat
           /\ IsFiniteSet(Less(s, x)) /\ Cardinality(Less(s, x)) \in Nat
<1>1. PICK n \in Nat : n = Len(s) /\ DOMAIN s = 1..n
  BY NumbersIs
<1>2. IsFiniteSet(1..n)
  BY FS_Interval
<1>3. NoMore(s, x) \in SUBSET (1..n) /\ Less(s, x) \in SUBSET (1..n)
  BY <1>1 DEF NoMore, Less
<1> QED
  BY <1>2, <1>3, FS_Subset, FS_CardinalityType

\* The value at a rank: how many are not above it, and how many are below.
LEMMA Ranked ==
    ASSUME NEW s \in Numbers, NEW r \in 1..Len(s)
    PROVE  /\ InOrder(s)[r] \in Nat /\ \E j \in DOMAIN s : s[j] = InOrder(s)[r]
           /\ Cardinality(NoMore(s, InOrder(s)[r])) >= r
           /\ Cardinality(Less(s, InOrder(s)[r])) <= r - 1
<1>1. PICK n \in Nat : n = Len(s) /\ \E p \in [1..n -> 1..n] :
               Sorts(p, s, n) /\ InOrder(s) = [i \in 1..n |-> s[p[i]]]
  BY InOrderIs
<1>2. PICK p \in [1..n -> 1..n] : Sorts(p, s, n) /\ InOrder(s) = [i \in 1..n |-> s[p[i]]]
  BY <1>1
<1>3. /\ DOMAIN s = 1..n /\ \A i \in 1..n : s[i] \in Nat
      /\ r \in 1..n /\ r \in Nat
  BY <1>1, NumbersIs
<1>4. PICK v : v = InOrder(s)[r] /\ v = s[p[r]]
  BY <1>2, <1>3
<1>5. v \in Nat /\ \E j \in DOMAIN s : s[j] = v
  BY <1>3, <1>4
<1>6. Cardinality(NoMore(s, v)) >= r
  <2> DEFINE A == 1..r
             B == {p[i] : i \in A}
  <2>1. IsFiniteSet(A) /\ Cardinality(A) = r
    BY <1>3, FS_Interval
  <2>2. \A i \in A : i \in 1..n
    BY <1>3
  <2>3. \A i \in A : p[i] \in B
    OBVIOUS
  <2>4. \A b \in B : \E i \in A : p[i] = b
    OBVIOUS
  <2>5. \A i, j \in A : p[i] = p[j] => i = j
    BY <1>2, <2>2 DEF Sorts
  <2>6. B \in SUBSET NoMore(s, v)
    <3>1. ASSUME NEW i \in A PROVE p[i] \in NoMore(s, v)
      <4>1. i \in 1..n /\ i <= r
        BY <1>3, <2>2
      <4>3. p[i] \in 1..n
        BY <4>1
      <4>2. s[p[i]] <= s[p[r]]
        BY <1>2, <1>3, <4>1 DEF Sorts
      <4> QED
        BY <1>3, <1>4, <4>2, <4>3 DEF NoMore
    <3> QED
      BY <3>1
  <2> HIDE DEF A, B
  <2>7. Cardinality(A) = Cardinality(B)
    BY <2>1, <2>3, <2>4, <2>5, SameSize
  <2>8. Cardinality(B) <= Cardinality(NoMore(s, v))
    BY <2>6, SharesAreFinite, FS_Subset
  <2> QED
    BY <1>3, <2>1, <2>7, <2>8, SharesAreFinite
<1>7. Cardinality(Less(s, v)) <= r - 1
  <2> DEFINE A == 1..(r - 1)
             B == {p[i] : i \in A}
  <2>1. IsFiniteSet(A) /\ Cardinality(A) = r - 1
    <3>1. r - 1 \in Int /\ (IF 1 > r - 1 THEN 0 ELSE (r - 1) - 1 + 1) = r - 1
      BY <1>3
    <3> QED
      BY <3>1, FS_Interval
  <2>2. \A i \in A : i \in 1..n
    BY <1>3
  <2>3. \A i \in A : p[i] \in B
    OBVIOUS
  <2>4. \A b \in B : \E i \in A : p[i] = b
    OBVIOUS
  <2>5. \A i, j \in A : p[i] = p[j] => i = j
    BY <1>2, <2>2 DEF Sorts
  <2>6. Less(s, v) \in SUBSET B
    <3>1. ASSUME NEW i \in 1..n, s[i] < v PROVE i \in B
      <4>1. PICK j \in 1..n : p[j] = i
        BY <1>2, Onto DEF Sorts
      <4>2. j < r
        <5>1. ASSUME r <= j PROVE FALSE
          <6>1. s[p[r]] <= s[p[j]]
            BY <1>2, <1>3, <5>1 DEF Sorts
          <6> QED
            BY <1>3, <1>4, <1>5, <3>1, <4>1, <6>1
        <5> QED
          BY <1>3, <5>1
      <4>3. j \in A
        BY <1>3, <4>2
      <4> QED
        BY <4>1, <4>3
    <3> QED
      BY <1>3, <3>1 DEF Less
  <2>7. B \in SUBSET (1..n)
    BY <2>2
  <2> HIDE DEF A, B
  <2>8. Cardinality(A) = Cardinality(B) /\ IsFiniteSet(B)
    <3>1. Cardinality(A) = Cardinality(B)
      BY <2>1, <2>3, <2>4, <2>5, SameSize
    <3>2. IsFiniteSet(1..n)
      BY FS_Interval
    <3>3. IsFiniteSet(B)
      BY <2>7, <3>2, FS_Subset
    <3> QED
      BY <3>1, <3>3
  <2>9. Cardinality(Less(s, v)) <= Cardinality(B)
    BY <2>6, <2>8, FS_Subset
  <2> QED
    BY <2>1, <2>8, <2>9
<1> QED
  BY <1>4, <1>5, <1>6, <1>7

LEMMA InOrderCounts ==
    ASSUME NEW s \in Numbers
    PROVE  /\ InOrder(s) \in Numbers /\ Len(InOrder(s)) = Len(s)
           /\ \A x \in Nat : Cardinality(NoMore(InOrder(s), x)) = Cardinality(NoMore(s, x))
<1>1. PICK n \in Nat : n = Len(s) /\ \E p \in [1..n -> 1..n] :
               Sorts(p, s, n) /\ InOrder(s) = [i \in 1..n |-> s[p[i]]]
  BY InOrderIs
<1>2. PICK p \in [1..n -> 1..n] : Sorts(p, s, n) /\ InOrder(s) = [i \in 1..n |-> s[p[i]]]
  BY <1>1
<1>3. DOMAIN s = 1..n /\ \A i \in 1..n : s[i] \in Nat
  BY <1>1, NumbersIs
<1>4. PICK t : t = InOrder(s) /\ t = [i \in 1..n |-> s[p[i]]]
  BY <1>2
<1>5. t \in Numbers
  <2>1. \A i \in 1..n : s[p[i]] \in Nat
    BY <1>3
  <2> QED
    BY <1>4, <2>1, IsASeq DEF Numbers
<1>6. Len(t) = n
  BY <1>4
<1>7. ASSUME NEW x \in Nat PROVE Cardinality(NoMore(t, x)) = Cardinality(NoMore(s, x))
  <2>1. PICK A, B : A = NoMore(t, x) /\ B = NoMore(s, x)
    OBVIOUS
  <2>2. A = {i \in 1..n : s[p[i]] <= x} /\ B = {i \in 1..n : s[i] <= x}
    BY <1>3, <1>4, <2>1 DEF NoMore
  <2>3. \A i \in A : p[i] \in B
    BY <2>2
  <2>4. \A b \in B : \E i \in A : p[i] = b
    <3>1. \A b \in 1..n : \E i \in 1..n : p[i] = b
      BY <1>2, Onto DEF Sorts
    <3> QED
      BY <2>2, <3>1
  <2>5. \A i, j \in A : p[i] = p[j] => i = j
    BY <1>2, <2>2 DEF Sorts
  <2>6. IsFiniteSet(A)
    BY <1>5, <2>1, SharesAreFinite
  <2>7. Cardinality(A) = Cardinality(B)
    BY <2>3, <2>4, <2>5, <2>6, SameSize
  <2> QED
    BY <2>1, <2>7
<1> QED
  BY <1>1, <1>4, <1>5, <1>6, <1>7

\* The same numbers, whatever their order.
Alike(s, q) ==
    Len(s) = Len(q) /\ \A x \in Nat : Cardinality(NoMore(s, x)) = Cardinality(NoMore(q, x))

LEMMA AlikeNotLess ==
    ASSUME NEW s \in Numbers, NEW q \in Numbers, Alike(s, q), NEW r \in 1..Len(s)
    PROVE  ~(InOrder(s)[r] < InOrder(q)[r])
<1> SUFFICES ASSUME InOrder(s)[r] < InOrder(q)[r] PROVE FALSE
  OBVIOUS
<1>1. PICK v, w : v = InOrder(s)[r] /\ w = InOrder(q)[r]
  OBVIOUS
<1>2. r \in 1..Len(q) /\ r \in Nat /\ Len(s) \in Nat
  BY NumbersIs DEF Alike
<1>3. /\ v \in Nat /\ w \in Nat /\ v < w
      /\ Cardinality(NoMore(s, v)) >= r /\ Cardinality(Less(q, w)) <= r - 1
  BY <1>1, <1>2, Ranked
<1>4. NoMore(q, v) \in SUBSET Less(q, w)
  BY <1>3, NumbersIs DEF NoMore, Less
<1>5. Cardinality(NoMore(q, v)) <= Cardinality(Less(q, w))
  BY <1>4, SharesAreFinite, FS_Subset
<1>6. Cardinality(NoMore(q, v)) = Cardinality(NoMore(s, v))
  BY <1>3 DEF Alike
<1>7. Cardinality(NoMore(q, v)) \in Nat /\ Cardinality(Less(q, w)) \in Nat
  BY SharesAreFinite
<1> QED
  BY <1>2, <1>3, <1>5, <1>6, <1>7

LEMMA AlikeInOrder ==
    ASSUME NEW s \in Numbers, NEW q \in Numbers, Alike(s, q)
    PROVE  InOrder(s) = InOrder(q)
<1>1. Alike(q, s) /\ Len(s) = Len(q)
  BY DEF Alike
<1>2. PICK n, t, u : n = Len(s) /\ t = InOrder(s) /\ u = InOrder(q)
  OBVIOUS
<1>3. n \in Nat /\ n = Len(q) /\ t \in Numbers /\ u \in Numbers /\ Len(t) = n /\ Len(u) = n
  BY <1>1, <1>2, InOrderCounts, NumbersIs
<1>4. ASSUME NEW r \in 1..n PROVE t[r] = u[r]
  <2>1. ~(t[r] < u[r]) /\ ~(u[r] < t[r])
    BY <1>1, <1>2, AlikeNotLess
  <2>2. t[r] \in Nat /\ u[r] \in Nat
    BY <1>3, NumbersIs
  <2> QED
    BY <2>1, <2>2
<1>5. t \in [1..n -> Nat] /\ u \in [1..n -> Nat]
  BY <1>3, NumbersIs
<1>6. t = u
  <2>1. t = [i \in 1..n |-> t[i]] /\ u = [i \in 1..n |-> u[i]]
    BY <1>5
  <2>2. [i \in 1..n |-> t[i]] = [i \in 1..n |-> u[i]]
    BY <1>4
  <2> QED
    BY ONLY <2>1, <2>2
<1> QED
  BY <1>2, <1>6

LEMMA AlikeAppend ==
    ASSUME NEW s \in Numbers, NEW q \in Numbers, Alike(s, q), NEW v \in Nat
    PROVE  Alike(Append(s, v), Append(q, v))
<1>1. ASSUME NEW z \in Numbers, NEW x \in Nat
      PROVE  Cardinality(NoMore(Append(z, v), x))
                 = IF v <= x THEN Cardinality(NoMore(z, x)) + 1 ELSE Cardinality(NoMore(z, x))
  <2>1. PICK n \in Nat : n = Len(z) /\ DOMAIN z = 1..n
    BY NumbersIs
  <2>2. PICK y : y = Append(z, v)
    OBVIOUS
  <2>3. DOMAIN y = 1..(n + 1) /\ y[n + 1] = v /\ \A i \in 1..n : y[i] = z[i]
    BY <2>1, <2>2, AppendProperties, LenProperties DEF Numbers
  <2>4. NoMore(y, x) = IF v <= x THEN NoMore(z, x) \cup {n + 1} ELSE NoMore(z, x)
    BY <2>1, <2>3 DEF NoMore
  <2>5. n + 1 \notin NoMore(z, x)
    BY <2>1 DEF NoMore
  <2>6. IsFiniteSet(NoMore(z, x))
    BY SharesAreFinite
  <2> QED
    BY <2>2, <2>4, <2>5, <2>6, FS_AddElement
<1>2. Len(Append(s, v)) = Len(Append(q, v))
  BY AppendProperties DEF Numbers, Alike
<1> QED
  BY <1>1, <1>2 DEF Alike

\* The nearest rank.
LEMMA NearestRank ==
    ASSUME NEW len \in Nat, len > 0, NEW of \in Nat, NEW whole \in Nat, whole > 0, of <= whole,
           NEW n, n = (len * of + whole - 1) \div whole
    PROVE  n \in 0..len /\ n * whole >= len * of /\ (n - 1) * whole < len * of
<1>1. PICK a : a = len * of /\ a \in Nat
  OBVIOUS
<1>2. a <= len * whole
  <2>1. len * of <= len * whole
    OBVIOUS
  <2> QED
    BY <1>1, <2>1
<1>3. PICK b : b = a + whole - 1 /\ b \in Nat
  BY <1>1
<1>4. n \in Nat /\ n * whole <= b /\ b < (n + 1) * whole
  BY <1>1, <1>3
<1>5. (n + 1) * whole = n * whole + whole /\ (n - 1) * whole = n * whole - whole
  BY <1>4
<1>6. n * whole >= a /\ (n - 1) * whole < a
  BY <1>1, <1>3, <1>4, <1>5
<1>7. n <= len
  <2>1. ASSUME n >= len + 1 PROVE FALSE
    <3>1. n * whole >= (len + 1) * whole
      BY <1>4, <2>1
    <3>2. (len + 1) * whole = len * whole + whole
      OBVIOUS
    <3> QED
      BY <1>1, <1>2, <1>3, <1>4, <3>1, <3>2
  <2> QED
    BY <1>4, <2>1
<1> QED
  BY <1>1, <1>4, <1>6, <1>7

Trails(s, q) == Len(s) <= Len(q) /\ \A i \in 1..Len(s) : s[i] = q[Len(q) - Len(s) + i]

LEMMA SuffixIs ==
    ASSUME NEW s \in Numbers, NEW q \in Numbers
    PROVE  IsSuffix(s, q) <=> Trails(s, q)
<1>1. PICK m \in Nat, n \in Nat : m = Len(s) /\ n = Len(q)
  BY NumbersIs
<1> DEFINE a == Reverse(s)
           b == Reverse(q)
<1>2. /\ a = [i \in 1..m |-> s[m - i + 1]] /\ b = [i \in 1..n |-> q[n - i + 1]]
  BY <1>1 DEF Reverse
<1>3. /\ \A i \in 1..m : s[m - i + 1] \in Nat
      /\ \A i \in 1..n : q[n - i + 1] \in Nat
  <2>1. \A i \in 1..m : m - i + 1 \in 1..m
    OBVIOUS
  <2>2. \A i \in 1..n : n - i + 1 \in 1..n
    OBVIOUS
  <2> QED
    BY <1>1, <2>1, <2>2, NumbersIs
<1>4. a \in Seq(Nat) /\ b \in Seq(Nat) /\ Len(a) = m /\ Len(b) = n
      /\ (\A i \in 1..m : a[i] = s[m - i + 1]) /\ (\A i \in 1..n : b[i] = q[n - i + 1])
  BY <1>2, <1>3, IsASeq
<1> HIDE DEF a, b
<1>5. CASE m <= n
  <2>1. SubSeq(a, 1, m) = a
    BY <1>4
  <2> DEFINE c == SubSeq(b, 1, m)
  <2>2. c \in Seq(Nat) /\ Len(c) = m /\ \A i \in 1..m : c[i] = b[i]
    BY <1>4, <1>5
  <2> HIDE DEF c
  <2>3. (a = c) <=> \A i \in 1..m : a[i] = b[i]
    <3>1. a = [i \in 1..m |-> a[i]] /\ c = [i \in 1..m |-> c[i]]
      BY <1>4, <2>2
    <3>2. (\A i \in 1..m : a[i] = c[i]) => a = c
      BY ONLY <3>1
    <3> QED
      BY <2>2, <3>2
  <2>4. (\A i \in 1..m : a[i] = b[i]) <=> \A i \in 1..m : s[m - i + 1] = q[n - i + 1]
    <3>1. \A i \in 1..m : i \in 1..n
      BY <1>5
    <3> QED
      BY <1>4, <3>1
  <2>5. (\A i \in 1..m : s[m - i + 1] = q[n - i + 1]) <=> \A i \in 1..m : s[i] = q[n - m + i]
    <3>1. ASSUME \A i \in 1..m : s[m - i + 1] = q[n - i + 1], NEW i \in 1..m PROVE s[i] = q[n - m + i]
      <4>1. PICK j : j = m - i + 1 /\ j \in 1..m /\ m - j + 1 = i /\ n - j + 1 = n - m + i
        OBVIOUS
      <4>2. s[m - j + 1] = q[n - j + 1]
        BY <3>1, <4>1
      <4> QED
        BY <4>1, <4>2
    <3>2. ASSUME \A i \in 1..m : s[i] = q[n - m + i], NEW i \in 1..m PROVE s[m - i + 1] = q[n - i + 1]
      <4>1. PICK j : j = m - i + 1 /\ j \in 1..m /\ n - m + j = n - i + 1
        OBVIOUS
      <4>2. s[j] = q[n - m + j]
        BY <3>2, <4>1
      <4> QED
        BY <4>1, <4>2
    <3> QED
      BY <3>1, <3>2
  <2>6. IsSuffix(s, q) <=> a = c
    BY <1>4, <1>5, <2>1 DEF IsSuffix, IsPrefix, a, b, c
  <2> QED
    BY <1>1, <1>5, <2>3, <2>4, <2>5, <2>6 DEF Trails
<1>6. CASE ~(m <= n)
  BY <1>1, <1>4, <1>6 DEF IsSuffix, IsPrefix, Trails, a, b
<1> QED
  BY <1>5, <1>6

WindowInv ==
    /\ samples \in Numbers /\ pushed \in Numbers /\ sorted \in BOOLEAN
    /\ Len(samples) <= MaxSamples
    /\ ~sorted => Trails(samples, pushed)
    /\ Len(pushed) < MaxSamples => Alike(samples, pushed)

LEMMA AlikeSelf == \A s : Alike(s, s)
BY DEF Alike

LEMMA WindowInvInit == LatencyInit => WindowInv
<1> SUFFICES ASSUME LatencyInit PROVE WindowInv
  OBVIOUS
<1>1. PICK h \in Histories : samples = [i \in DOMAIN h |-> h[i].latency]
  BY DEF LatencyInit
<1>2. h \in Seq(Results) /\ Len(h) <= MaxSamples
  BY LatencyStatsAssumption DEF LatencyStatsAssumption
<1>3. PICK n \in Nat : Len(h) = n /\ DOMAIN h = 1..n /\ \A i \in 1..n : h[i] \in Results
  <2>1. Len(h) \in Nat /\ DOMAIN h = 1..Len(h)
    BY <1>2, LenProperties
  <2> QED
    BY <1>2, <2>1, ElementOfSeq
<1>4. samples = [i \in 1..n |-> h[i].latency] /\ pushed = samples /\ sorted = FALSE
  BY <1>1, <1>3 DEF LatencyInit
<1>5. \A i \in 1..n : h[i].latency \in Nat
  BY <1>3, LatencyStatsAssumption DEF LatencyStatsAssumption
<1>6. samples \in Numbers /\ Len(samples) = n
  BY <1>4, <1>5, IsASeq DEF Numbers
<1>7. Trails(samples, samples)
  BY <1>6 DEF Trails
<1> QED
  BY <1>2, <1>3, <1>4, <1>6, <1>7, AlikeSelf DEF WindowInv

LEMMA RoomIs ==
    ASSUME NEW s \in Numbers, Len(s) <= MaxSamples
    PROVE  /\ Room(s) \in Numbers /\ Len(Room(s)) < MaxSamples /\ Trails(Room(s), s)
           /\ Len(s) < MaxSamples => Room(s) = s
<1>1. MaxSamples \in Nat /\ MaxSamples >= 2
  BY LatencyStatsAssumption DEF LatencyStatsAssumption
<1>2. PICK n \in Nat : n = Len(s) /\ \A i \in 1..n : s[i] \in Nat
  BY NumbersIs
<1>3. CASE n < MaxSamples
  <2>1. Room(s) = s
    BY <1>1, <1>2, <1>3 DEF Room
  <2>2. Trails(s, s)
    BY <1>2 DEF Trails
  <2> QED
    BY <1>2, <1>3, <2>1, <2>2
<1>4. CASE n = MaxSamples
  <2>1. PICK k \in Nat : k = n \div 2 /\ k >= 1 /\ k < n
    BY <1>1, <1>4
  <2>2. Room(s) = SubSeq(s, k + 1, n)
    BY <1>1, <1>2, <1>4, <2>1 DEF Room
  <2>3. PICK r : r = SubSeq(s, k + 1, n)
    OBVIOUS
  <2>4. r = [i \in 1..(n - k) |-> s[k + i]]
    <3>1. r = [i \in 1..(1 + n - (k + 1)) |-> s[i + (k + 1) - 1]]
      BY <2>3
    <3>2. 1 + n - (k + 1) = n - k /\ \A i \in 1..(n - k) : i + (k + 1) - 1 = k + i
      BY <2>1
    <3> QED
      BY <3>1, <3>2
  <2>5. n - k \in Nat /\ \A i \in 1..(n - k) : s[k + i] \in Nat
    BY <1>2, <2>1
  <2>6. r \in Numbers /\ Len(r) = n - k /\ \A i \in 1..(n - k) : r[i] = s[k + i]
    BY <2>4, <2>5, IsASeq DEF Numbers
  <2>7. Trails(r, s)
    BY <1>2, <2>1, <2>6 DEF Trails
  <2> QED
    BY <1>2, <1>4, <2>1, <2>2, <2>3, <2>6, <2>7
<1> QED
  BY <1>1, <1>2, <1>3, <1>4

LEMMA TrailsOn ==
    ASSUME NEW r \in Numbers, NEW s \in Numbers, NEW q \in Numbers, Trails(r, s), Trails(s, q), NEW v \in Nat
    PROVE  Trails(Append(r, v), Append(q, v))
<1>1. PICK k \in Nat, m \in Nat, n \in Nat : k = Len(r) /\ m = Len(s) /\ n = Len(q)
  BY NumbersIs
<1>2. k <= m /\ m <= n /\ \A i \in 1..k : r[i] = q[n - k + i]
  <2>1. k <= m /\ m <= n
    BY <1>1 DEF Trails
  <2>2. ASSUME NEW i \in 1..k PROVE r[i] = q[n - k + i]
    <3>1. m - k + i \in 1..m /\ n - m + (m - k + i) = n - k + i
      BY <2>1
    <3>2. r[i] = s[m - k + i] /\ s[m - k + i] = q[n - m + (m - k + i)]
      BY <1>1, <3>1 DEF Trails
    <3> QED
      BY <3>1, <3>2
  <2> QED
    BY <2>1, <2>2
<1>3. PICK a, b : a = Append(r, v) /\ b = Append(q, v)
  OBVIOUS
<1>4. /\ Len(a) = k + 1 /\ a[k + 1] = v /\ \A i \in 1..k : a[i] = r[i]
      /\ Len(b) = n + 1 /\ b[n + 1] = v /\ \A i \in 1..n : b[i] = q[i]
  BY <1>1, <1>3, AppendProperties DEF Numbers
<1>5. ASSUME NEW i \in 1..(k + 1) PROVE a[i] = b[(n + 1) - (k + 1) + i]
  <2>1. CASE i = k + 1
    <3>1. (n + 1) - (k + 1) + i = n + 1
      BY <2>1
    <3> QED
      BY <1>4, <2>1, <3>1
  <2>2. CASE i \in 1..k
    <3>1. (n + 1) - (k + 1) + i = n - k + i /\ n - k + i \in 1..n
      BY <1>2, <2>2
    <3> QED
      BY <1>2, <1>4, <2>2, <3>1
  <2> QED
    BY <2>1, <2>2
<1>6. Len(a) <= Len(b) /\ \A i \in 1..Len(a) : a[i] = b[Len(b) - Len(a) + i]
  BY <1>2, <1>4, <1>5
<1> QED
  BY <1>3, <1>6 DEF Trails

LEMMA WindowInvStep == LatencyTypes /\ WindowInv /\ [LatencyNext]_latencyVars => WindowInv'
<1> SUFFICES ASSUME LatencyTypes, WindowInv, [LatencyNext]_latencyVars PROVE WindowInv'
  OBVIOUS
<1>1. MaxSamples \in Nat /\ MaxSamples >= 2
  BY LatencyStatsAssumption DEF LatencyStatsAssumption
<1>2. ASSUME UNCHANGED sampleVars PROVE WindowInv'
  BY <1>2 DEF sampleVars, WindowInv
<1>3. ASSUME NEW t \in Recorders, NEW r \in Results, BeginRecord(t, r) PROVE WindowInv'
  BY <1>2, <1>3 DEF BeginRecord
<1>4. ASSUME NEW t \in Recorders, NEW group \in Groups, Add(t, group) PROVE WindowInv'
  BY <1>2, <1>4 DEF Add
<1>5. ASSUME NEW t \in Recorders, UpdateMin(t) \/ UpdateMax(t) PROVE WindowInv'
  BY <1>2, <1>5 DEF UpdateMin, UpdateMax, LoadExtreme, ExchangeExtreme
<1>6. ASSUME NEW t \in Recorders, PushSample(t) PROVE WindowInv'
  <2>1. recorder[t].adds \in Records
    BY <1>6, PushMoves
  <2>2. PICK v \in Nat : v = recorder[t].adds.sum
    BY <2>1, RecordIs
  <2>3. PICK s, q, r : s = samples /\ q = pushed /\ r = Room(samples)
    OBVIOUS
  <2>4. /\ s \in Numbers /\ q \in Numbers /\ Len(s) <= MaxSamples
        /\ (~sorted => Trails(s, q)) /\ (Len(q) < MaxSamples => Alike(s, q))
    BY <2>3 DEF WindowInv
  <2>5. /\ r \in Numbers /\ Len(r) < MaxSamples /\ Trails(r, s)
        /\ (Len(s) < MaxSamples => r = s)
    BY <2>3, <2>4, RoomIs
  <2>6. PICK a, b : a = Append(r, v) /\ b = Append(q, v)
    OBVIOUS
  <2>7. samples' = a /\ pushed' = b /\ sorted' = sorted
    BY <1>6, <2>2, <2>3, <2>6 DEF PushSample
  <2>8. a \in Numbers /\ b \in Numbers /\ Len(a) = Len(r) + 1 /\ Len(b) = Len(q) + 1
    BY <2>4, <2>5, <2>6, AppendProperties DEF Numbers
  <2>9. Len(a) <= MaxSamples
    BY <1>1, <2>5, <2>8, NumbersIs
  <2>10. ~sorted => Trails(a, b)
    BY <2>4, <2>5, <2>6, TrailsOn
  <2>11. ASSUME Len(b) < MaxSamples PROVE Alike(a, b)
    <3>1. Len(q) < MaxSamples /\ Len(s) = Len(q)
      BY <1>1, <2>4, <2>8, <2>11, NumbersIs DEF Alike
    <3> QED
      BY <2>4, <2>5, <2>6, <3>1, AlikeAppend
  <2> QED
    BY <2>7, <2>8, <2>9, <2>10, <2>11 DEF WindowInv
<1>7. CASE BeginSnapshot \/ BeginReset \/ UNCHANGED latencyVars
  BY <1>2, <1>7 DEF BeginSnapshot, BeginReset, latencyVars, sampleVars
<1>8. ASSUME NEW c \in Loaded, LoadCounter(c) PROVE WindowInv'
  BY <1>2, <1>8 DEF LoadCounter
<1>9. CASE TakePercentile
  <2>1. samples' = InOrder(samples) /\ pushed' = pushed /\ sorted' = TRUE
    BY <1>9 DEF TakePercentile
  <2>2. samples' \in Numbers /\ Len(samples') = Len(samples)
        /\ \A x \in Nat : Cardinality(NoMore(samples', x)) = Cardinality(NoMore(samples, x))
    BY <2>1, InOrderCounts DEF WindowInv
  <2>3. Alike(samples, pushed) => Alike(samples', pushed)
    BY <2>2 DEF Alike
  <2> QED
    BY <2>1, <2>2, <2>3 DEF WindowInv
<1>10. CASE ResetNext
  <2>1. CASE Head(resetting) = "samples"
    <3>1. samples' = <<>> /\ pushed' = <<>> /\ sorted' = FALSE
      BY <1>10, <2>1 DEF ResetNext
    <3>2. <<>> \in Numbers /\ Len(<<>>) = 0 /\ Trails(<<>>, <<>>)
      BY DEF Numbers, Trails
    <3>3. Alike(<<>>, <<>>)
      BY AlikeSelf
    <3>4. PICK e : e = <<>> /\ e \in Numbers /\ Len(e) = 0 /\ Trails(e, e) /\ Alike(e, e)
      BY <3>2, <3>3
    <3>5. samples' = e /\ pushed' = e /\ sorted' = FALSE
      BY <3>1, <3>4
    <3>6. Len(e) <= MaxSamples
      BY ONLY <1>1, <3>4
    <3>7. sorted' \in BOOLEAN
      BY ONLY <3>5
    <3> QED
      BY ONLY <3>4, <3>5, <3>6, <3>7, Zenon DEF WindowInv
  <2>2. CASE Head(resetting) # "samples"
    BY <1>2, <1>10, <2>2 DEF ResetNext
  <2> QED
    BY <2>1, <2>2
<1> QED
  BY <1>3, <1>4, <1>5, <1>6, <1>7, <1>8, <1>9, <1>10 DEF LatencyNext

LEMMA WindowHolds == WindowInv => WindowIsNewest
<1> SUFFICES ASSUME WindowInv PROVE WindowIsNewest
  OBVIOUS
<1>1. ~sorted => IsSuffix(samples, pushed)
  BY SuffixIs DEF WindowInv
<1>2. Len(pushed) < MaxSamples => InOrder(samples) = InOrder(pushed)
  BY AlikeInOrder DEF WindowInv
<1> QED
  BY <1>1, <1>2 DEF WindowIsNewest, WindowInv

LEMMA RanksHold == WindowInv => PercentileIsRank
<1> SUFFICES ASSUME WindowInv, samples # <<>>, NEW rank \in Ranks
             PROVE  LET v == Percentile(samples, rank)
                        upTo == Cardinality({i \in DOMAIN samples : samples[i] <= v})
                        below == Cardinality({i \in DOMAIN samples : samples[i] < v})
                    IN /\ v \in ToSet(samples)
                       /\ upTo * rank[2] >= Len(samples) * rank[1]
                       /\ below > 0 => below * rank[2] < Len(samples) * rank[1]
  BY DEF PercentileIsRank
<1>1. PICK s : s = samples
  OBVIOUS
<1>2. s \in Numbers /\ s # <<>>
  BY <1>1 DEF WindowInv
<1>3. PICK len \in Nat : len = Len(s) /\ len > 0 /\ DOMAIN s = 1..len
  BY <1>2, NumbersIs, EmptySeq DEF Numbers
<1>4. PICK of \in Nat, whole \in Nat : of = rank[1] /\ whole = rank[2] /\ whole > 0 /\ of <= whole
  BY LatencyStatsAssumption DEF LatencyStatsAssumption
<1>5. PICK n : n = (len * of + whole - 1) \div whole
  OBVIOUS
<1>6. n \in 0..len /\ n * whole >= len * of /\ (n - 1) * whole < len * of
  BY <1>3, <1>4, <1>5, NearestRank
<1>7. PICK r : r = IF n = 0 THEN 1 ELSE n
  OBVIOUS
<1>8. r \in 1..len
  BY <1>3, <1>6, <1>7
<1>9. PICK v : v = Percentile(s, rank) /\ v = InOrder(s)[r]
  BY <1>2, <1>3, <1>4, <1>5, <1>7 DEF Percentile
<1>10. PICK upTo, below : upTo = Cardinality(NoMore(s, v)) /\ below = Cardinality(Less(s, v))
  OBVIOUS
<1>11. /\ \E j \in DOMAIN s : s[j] = v
       /\ upTo >= r /\ below <= r - 1 /\ upTo \in Nat /\ below \in Nat
  BY <1>2, <1>3, <1>8, <1>9, <1>10, Ranked, SharesAreFinite
<1>12. v \in ToSet(s)
  BY <1>11 DEF ToSet
<1>13. upTo * whole >= len * of
  <2>1. upTo >= n /\ n \in Nat
    BY <1>6, <1>7, <1>11
  <2>2. upTo * whole >= n * whole
    BY ONLY <2>1, <1>11, whole \in Nat
  <2>3. upTo * whole \in Nat /\ n * whole \in Nat /\ len * of \in Nat
    BY <1>11, <2>1
  <2> QED
    BY ONLY <1>6, <2>2, <2>3
<1>14. ASSUME below > 0 PROVE below * whole < len * of
  <2>1. below <= n - 1 /\ n - 1 \in Nat
    BY <1>6, <1>7, <1>11, <1>14
  <2>2. below * whole <= (n - 1) * whole
    BY ONLY <2>1, <1>11, whole \in Nat
  <2>3. below * whole \in Nat /\ (n - 1) * whole \in Nat /\ len * of \in Nat
    BY <1>11, <2>1
  <2> QED
    BY ONLY <1>6, <2>2, <2>3
<1> QED
  BY <1>1, <1>3, <1>4, <1>9, <1>10, <1>12, <1>13, <1>14 DEF NoMore, Less

LatencyInv == LatencyTypes /\ CountInv /\ SnapInv /\ WindowInv

\* However many threads record, snapshots load, percentiles sort and resets clear at the same
\* time (metrics.rs, router.rs), the figures hold.
THEOREM FiguresAlwaysHold == LatencySpec => []FiguresHold
<1>1. LatencyInit => LatencyInv
  BY LatencyTypesInit, CountInvInit, SnapInvInit, WindowInvInit DEF LatencyInv
<1>2. LatencyInv /\ [LatencyNext]_latencyVars => LatencyInv'
  BY LatencyTypesStep, CountInvStep, SnapInvStep, WindowInvStep DEF LatencyInv
<1>3. LatencyInv => FiguresHold
  BY CountersHold, WindowHolds, RanksHold DEF LatencyInv, SnapInv, FiguresHold
<1> QED
  BY <1>1, <1>2, <1>3, PTL DEF LatencySpec

================================================================================
