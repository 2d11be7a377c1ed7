--------------------------- MODULE RouteTableProofs ---------------------------
(***************************************************************************)
(* Theorems about RouteTable, for any routes, modules, actions and number  *)
(* of lookups: the cache is coherent, and a lookup never passes over a     *)
(* route that was registered all along.                                    *)
(***************************************************************************)
EXTENDS RouteTable, FiniteSetTheorems, TLAPS

-------------------------------------------------------------------------------
(* Types *)

LEMMA ForgetType ==
    ASSUME TypeOK, NEW S, Forget(S)
    PROVE  /\ cache' \in [Actions -> Routes \cup {None}]
           /\ Cached' \subseteq Cached
           /\ \A a \in Cached' : cache'[a] = cache[a] /\ a \notin S
           /\ Cardinality(Cached') <= CacheCapacity
<1>1. /\ cache' \in [Actions -> Routes \cup {None}]
      /\ Cached' \subseteq Cached
      /\ \A a \in Cached' : cache'[a] = cache[a] /\ a \notin S
  BY DEF TypeOK, Forget, Cached
<1>2. IsFiniteSet(Cached)
  BY RouteAssumption, FS_Subset DEF RouteAssumption, Cached
<1>3. Cardinality(Cached') <= Cardinality(Cached) /\ Cardinality(Cached) \in Nat
      /\ Cardinality(Cached') \in Nat
  BY <1>1, <1>2, FS_Subset, FS_CardinalityType
<1> QED
  BY <1>1, <1>3, RouteAssumption DEF RouteAssumption, TypeOK

LEMMA PutType ==
    ASSUME TypeOK, NEW a \in Actions, NEW r \in Routes, Put(a, r)
    PROVE  /\ cache' \in [Actions -> Routes \cup {None}]
           /\ cache'[a] = r
           /\ \A b \in Cached' \ {a} : b \in Cached /\ cache'[b] = cache[b]
           /\ Cardinality(Cached') <= CacheCapacity
<1> USE RouteAssumption DEF RouteAssumption
<1>1. IsFiniteSet(Cached) /\ Cardinality(Cached) \in Nat /\ Cardinality(Cached) <= CacheCapacity
  BY FS_Subset, FS_CardinalityType DEF Cached, TypeOK
<1>2. CASE a \in Cached
  <2>1. cache' = [cache EXCEPT ![a] = r]
    BY <1>2 DEF Put
  <2>2. Cached' = Cached
    BY <2>1, <1>2 DEF TypeOK, Cached
  <2> QED
    BY <2>1, <2>2, <1>1 DEF TypeOK
<1>3. CASE a \notin Cached /\ Cardinality(Cached) < CacheCapacity
  <2>1. cache' = [cache EXCEPT ![a] = r]
    BY <1>3 DEF Put
  <2>2. Cached' = Cached \cup {a}
    BY <2>1 DEF TypeOK, Cached
  <2>3. Cardinality(Cached') = Cardinality(Cached) + 1
    BY <2>2, <1>1, <1>3, FS_AddElement
  <2> QED
    BY <2>1, <2>2, <2>3, <1>1, <1>3 DEF TypeOK
<1>4. CASE a \notin Cached /\ ~(Cardinality(Cached) < CacheCapacity)
  <2>1. PICK b \in Cached : cache' = [cache EXCEPT ![a] = r, ![b] = None]
    BY <1>4 DEF Put
  <2>2. Cached' = (Cached \ {b}) \cup {a} /\ a \notin Cached \ {b} /\ a # b
    BY <2>1, <1>4 DEF TypeOK, Cached
  <2>3. IsFiniteSet(Cached \ {b}) /\ Cardinality(Cached \ {b}) = Cardinality(Cached) - 1
    BY <2>1, <1>1, FS_RemoveElement
  <2>4. Cardinality(Cached') = Cardinality(Cached \ {b}) + 1
    BY <2>2, <2>3, FS_AddElement
  <2> QED
    BY <2>1, <2>2, <2>3, <2>4, <1>1, <1>4 DEF TypeOK, Cached
<1> QED
  BY <1>2, <1>3, <1>4

\* A lookup in progress is for an action.
TypeInv ==
    /\ TypeOK
    /\ \A f \in Searching : faction[f] \in Actions

-------------------------------------------------------------------------------
(* Each table is totally ordered *)

Best(w, S) == w \in S /\ \A s \in S \ {w} : Precedes(w, s)

\* Ages are recorded for registered routes only, no two routes are older
\* than each other, and every nonempty set of routes has a first one.
OrderInv ==
    /\ \A s \in registered : earlier[s] \subseteq registered \ {s}
    /\ \A r, s \in registered : r \in earlier[s] => s \notin earlier[r]
    /\ \A S \in SUBSET registered : S # {} => \E r \in S : Best(r, S)

LEMMA UniqueBest ==
    ASSUME TypeOK, OrderInv, NEW S \in SUBSET registered,
           NEW v, NEW w, Best(v, S), Best(w, S)
    PROVE  v = w
<1> SUFFICES ASSUME v # w PROVE FALSE
  OBVIOUS
<1>1. v \in registered /\ w \in registered /\ Precedes(v, w) /\ Precedes(w, v)
  BY DEF Best
<1>2. Priority[v] \in Nat /\ Priority[w] \in Nat
  BY <1>1, RouteAssumption DEF RouteAssumption, TypeOK
<1> QED
  BY <1>1, <1>2 DEF Precedes, OrderInv

LEMMA FirstOfBest ==
    ASSUME TypeOK, OrderInv, NEW S \in SUBSET registered, S # {}
    PROVE  Best(FirstOf(S), S)
  BY DEF OrderInv, Best, FirstOf

\* The tables change in one of two ways only.
Added(r) ==
    /\ r \in Routes \ registered
    /\ registered' = registered \cup {r}
    /\ earlier' = [earlier EXCEPT ![r] = registered]

Removed(gone) ==
    /\ gone \subseteq registered
    /\ registered' = registered \ gone
    /\ earlier' = [r \in Routes |-> IF r \in gone THEN {} ELSE earlier[r] \ gone]

LEMMA AddedOrder ==
    ASSUME TypeOK, OrderInv, NEW r, Added(r)
    PROVE  /\ \A s, t \in registered : Precedes(s, t) => Precedes(s, t)'
           /\ OrderInv'
<1>1. \A s \in registered : earlier'[s] = earlier[s]
  BY DEF TypeOK, Added
<1>2. earlier'[r] = registered
  BY DEF TypeOK, Added
<1>3. \A s, t \in registered : Precedes(s, t) => Precedes(s, t)'
  BY <1>1 DEF Precedes
<1>4. /\ \A s \in registered' : earlier'[s] \subseteq registered' \ {s}
      /\ \A s, t \in registered' : s \in earlier'[t] => t \notin earlier'[s]
  BY <1>1, <1>2 DEF OrderInv, Added
<1>5. ASSUME NEW S \in SUBSET registered', S # {}
      PROVE  \E s \in S : Best(s, S)'
  <2> DEFINE T == S \ {r}
  <2>1. T \in SUBSET registered
    BY DEF Added
  <2>2. CASE T = {}
    <3>1. S = {r}
      BY <2>2, <1>5
    <3> QED
      BY <3>1 DEF Best
  <2>3. CASE T # {}
    <3>1. PICK w \in T : Best(w, T)
      BY <2>1, <2>3 DEF OrderInv
    <3>2. \A t \in T \ {w} : Precedes(w, t)'
      BY <3>1, <1>3, <2>1 DEF Best
    <3>3. CASE r \notin S
      BY <3>1, <3>2, <3>3 DEF Best
    <3>4. \A t \in T : Priority[t] \in Nat /\ t \in registered
      BY <2>1, RouteAssumption DEF RouteAssumption, TypeOK
    <3>5. Priority[r] \in Nat
      BY RouteAssumption DEF RouteAssumption, Added
    <3>6. CASE r \in S /\ Priority[w] >= Priority[r]
      <4>1. Precedes(w, r)'
        BY <3>1, <3>4, <3>5, <3>6, <1>2 DEF Precedes
      <4> QED
        BY <4>1, <3>1, <3>2 DEF Best
    <3>7. CASE r \in S /\ ~(Priority[w] >= Priority[r])
      <4>1. ASSUME NEW t \in T PROVE Precedes(r, t)'
        <5>1. t = w \/ Precedes(w, t)
          BY <3>1 DEF Best
        <5>2. Priority[w] >= Priority[t]
          BY <5>1, <3>1, <3>4 DEF Precedes
        <5> QED
          BY <5>2, <3>1, <3>4, <3>5, <3>7 DEF Precedes
      <4> QED
        BY <4>1, <3>7 DEF Best
    <3> QED
      BY <3>3, <3>6, <3>7
  <2> QED
    BY <2>2, <2>3
<1> QED
  BY <1>3, <1>4, <1>5 DEF OrderInv

LEMMA RemovedOrder ==
    ASSUME TypeOK, OrderInv, NEW gone, Removed(gone)
    PROVE  /\ \A s, t \in registered' : Precedes(s, t) => Precedes(s, t)'
           /\ OrderInv'
<1>1. \A s \in registered' : earlier'[s] = earlier[s] \ gone
  BY DEF TypeOK, Removed
<1>2. \A s, t \in registered' : Precedes(s, t) => Precedes(s, t)'
  BY <1>1 DEF Precedes, Removed
<1>3. /\ \A s \in registered' : earlier'[s] \subseteq registered' \ {s}
      /\ \A s, t \in registered' : s \in earlier'[t] => t \notin earlier'[s]
  BY <1>1 DEF OrderInv, Removed
<1>4. ASSUME NEW S \in SUBSET registered', S # {}
      PROVE  \E s \in S : Best(s, S)'
  <2>1. S \in SUBSET registered
    BY DEF Removed
  <2>2. PICK w \in S : Best(w, S)
    BY <2>1, <1>4 DEF OrderInv
  <2> QED
    BY <2>2, <1>2 DEF Best
<1> QED
  BY <1>2, <1>3, <1>4 DEF OrderInv

LEMMA SameOrder ==
    ASSUME OrderInv, UNCHANGED <<registered, earlier>>
    PROVE  OrderInv'
  BY DEF OrderInv, Best, Precedes

-------------------------------------------------------------------------------
(* What a lookup finds *)

\* w is what an undisturbed lookup of a finds: Resolve(a), without CHOOSE.
IsAnswer(a, w) ==
    \/ Best(w, Hits(Order(a)[1], a))
    \/ Hits(Order(a)[1], a) = {} /\ Best(w, Hits(Order(a)[2], a))
    \/ Hits(Order(a)[1], a) = {} /\ Hits(Order(a)[2], a) = {} /\ Best(w, Hits(Order(a)[3], a))
    \/ (\A i \in 1..3 : Hits(Order(a)[i], a) = {}) /\ w = default

LEMMA HitsRegistered ==
    ASSUME NEW k, NEW a
    PROVE  Hits(k, a) \in SUBSET registered
  BY DEF Hits

LEMMA AnswerResolves ==
    ASSUME TypeOK, OrderInv, NEW a, NEW w, IsAnswer(a, w)
    PROVE  w = Resolve(a)
<1> DEFINE H(i) == Hits(Order(a)[i], a)
<1>1. \A i \in 1..3 : H(i) \in SUBSET registered
  BY HitsRegistered
<1>2. \A i \in 1..3 : Best(w, H(i)) => H(i) # {} /\ w = FirstOf(H(i))
  <2> SUFFICES ASSUME NEW i \in 1..3, Best(w, H(i))
               PROVE  H(i) # {} /\ w = FirstOf(H(i))
    OBVIOUS
  <2>1. H(i) # {}
    BY DEF Best
  <2> HIDE DEF H
  <2>2. Best(FirstOf(H(i)), H(i))
    BY <2>1, <1>1, FirstOfBest
  <2> QED
    BY <2>1, <2>2, <1>1, UniqueBest
<1> QED
  BY <1>2 DEF IsAnswer, Resolve

\* An answer stays one when the tables lose other routes, or gain routes
\* that do not match.
LEMMA AnswerKept ==
    ASSUME NEW a, NEW w, IsAnswer(a, w),
           \A k : Hits(k, a)' \subseteq Hits(k, a),
           \A k : w \in Hits(k, a) => w \in Hits(k, a)',
           w = default => default' = default,
           \A s, t \in registered \cap registered' : Precedes(s, t) => Precedes(s, t)'
    PROVE  IsAnswer(a, w)'
<1>1. \A k : Best(w, Hits(k, a)) => Best(w, Hits(k, a))'
  <2> SUFFICES ASSUME NEW k, Best(w, Hits(k, a))
               PROVE  Best(w, Hits(k, a))'
    OBVIOUS
  <2>1. w \in Hits(k, a)'
    BY DEF Best
  <2>2. \A s \in Hits(k, a)' : s \in registered \cap registered'
    BY DEF Hits
  <2>3. ASSUME NEW s \in Hits(k, a)' \ {w}
        PROVE  Precedes(w, s)'
    <3>1. s \in Hits(k, a) \ {w}
      OBVIOUS
    <3>2. Precedes(w, s)
      BY <3>1 DEF Best
    <3> QED
      BY <2>1, <2>2, <3>2
  <2> QED
    BY <2>1, <2>3 DEF Best
<1>2. \A k : Hits(k, a) = {} => Hits(k, a)' = {}
  OBVIOUS
<1> QED
  BY <1>1, <1>2 DEF IsAnswer

LEMMA AnswerUnchanged ==
    ASSUME NEW a, NEW w, UNCHANGED tableVars
    PROVE  IsAnswer(a, w)' <=> IsAnswer(a, w)
  BY DEF tableVars, IsAnswer, Best, Hits, Precedes

\* The tables a lookup of a has found no match in when it is about to read
\* the next one.
PassedAt(pc, a) ==
    LET fast == IF a \in FastActions THEN {"exact", "prefix"} ELSE {}
    IN  IF pc = "fast_prefix" THEN {"exact"}
        ELSE IF pc = "custom" THEN fast
        ELSE IF pc = "exact" THEN fast \cup {"custom"}
        ELSE IF pc = "prefix" THEN fast \cup {"custom", "exact"}
        ELSE IF pc = "default" THEN {"custom", "exact", "prefix"}
        ELSE {}

\* What a lookup has seen still holds unless it was overtaken.
SearchInv ==
    \A f \in Searching :
        /\ fpc[f] \in {"fast_exact", "fast_prefix"} => faction[f] \in FastActions
        /\ f \notin overtaken =>
              /\ \A k \in PassedAt(fpc[f], faction[f]) : Hits(k, faction[f]) = {}
              /\ fpc[f] = "found" => IsAnswer(faction[f], found[f])

\* The cache holds answers.
CacheInv ==
    \A a \in Cached \ suspect :
        \/ IsAnswer(a, cache[a])
        \/ removal[ModuleOf[cache[a]]] # "none"

\* The steady routes of a lookup that match.
SteadyHits(f) == {r \in steady[f] : r \in Enabled /\ faction[f] \in Covers[r]}

Wins(f, r) ==
    LET a == faction[f]
        s == found[f]
    IN  /\ s \notin OfKind("default") \cup {None}
        /\ Rank(KindOf[s], a) <= Rank(KindOf[r], a)
        /\ KindOf[s] = KindOf[r] => Priority[s] >= Priority[r]
        /\ KindOf[s] = KindOf[r] /\ s \in steady[f] \ {r} => Precedes(s, r)

\* A steady route that matches is still ahead of the lookup, or has lost to
\* what was found.
SteadyInv ==
    \A f \in Searching :
        /\ steady[f] \subseteq registered
        /\ \A r \in SteadyHits(f) : KindOf[r] \notin PassedAt(fpc[f], faction[f])
        /\ fpc[f] = "found" => \A r \in SteadyHits(f) : Wins(f, r)

Inv == TypeInv /\ OrderInv /\ SearchInv /\ CacheInv /\ SteadyInv

LEMMA InitInv == Init => Inv
<1> SUFFICES ASSUME Init PROVE Inv
  OBVIOUS
<1>1. Cached = {} /\ Searching = {}
  BY DEF Init, Cached, Searching
<1>2. TypeInv
  <2>1. Cardinality(Cached) <= CacheCapacity
    BY <1>1, FS_EmptySet, RouteAssumption DEF RouteAssumption
  <2> QED
    BY <2>1, <1>1, RouteAssumption DEF RouteAssumption, TypeInv, TypeOK, Init, OfKind
<1>3. OrderInv
  BY DEF OrderInv, Init
<1> QED
  BY <1>1, <1>2, <1>3 DEF Inv, SearchInv, CacheInv, SteadyInv

-------------------------------------------------------------------------------
(* Each step, and what it does to the tables *)

LEMMA AddIsAdded ==
    ASSUME TypeOK, NEW r \in Routes, KindOf[r] # "default", Add(r), NEW S, Forget(S)
    PROVE  TypeOK' /\ Added(r)
<1>1. registered' = registered \cup {r} /\ r \notin OfKind("default")
  BY DEF Add, OfKind
<1>2. earlier' \in [Routes -> SUBSET Routes]
  BY DEF Add, TypeOK
<1>3. overtaken' \subseteq Finders
  BY DEF Add, Overtake, Searching, TypeOK
<1>4. /\ cache' \in [Actions -> Routes \cup {None}]
      /\ Cardinality(Cached') <= CacheCapacity
  BY ForgetType
<1> QED
  BY <1>1, <1>2, <1>3, <1>4 DEF Add, TypeOK, Added, finderVars

LEMMA RemoveIsRemoved ==
    ASSUME TypeOK, NEW m \in Modules, NEW here, NEW kind,
           NEW next \in {"none", "custom", "prefix", "default", "cache"},
           RemoveFrom(m, here, kind, next)
    PROVE  /\ TypeOK'
           /\ Removed({r \in registered : KindOf[r] = kind /\ ModuleOf[r] = m})
<1> DEFINE gone == {r \in registered : KindOf[r] = kind /\ ModuleOf[r] = m}
<1>1. Removed(gone)
  BY DEF RemoveFrom, Removed
<1>2. /\ registered' \subseteq Routes \ OfKind("default")
      /\ earlier' \in [Routes -> SUBSET Routes]
      /\ steady' \in [Finders -> SUBSET Routes]
  BY DEF RemoveFrom, TypeOK
<1>3. overtaken' \subseteq Finders
  BY DEF RemoveFrom, Overtake, Searching, TypeOK
<1>4. Cached' = Cached
  BY DEF RemoveFrom, Cached
<1> QED
  BY <1>1, <1>2, <1>3, <1>4 DEF RemoveFrom, TypeOK, finderVars

LEMMA ScanType ==
    ASSUME TypeOK, NEW f \in Finders, NEW here, NEW kind,
           NEW next \in {"fast_prefix", "custom", "exact", "prefix", "default"},
           Scan(f, here, kind, next), OrderInv
    PROVE  /\ TypeOK'
           /\ \/ /\ Hits(kind, faction[f]) = {}
                 /\ fpc' = [fpc EXCEPT ![f] = next] /\ UNCHANGED found
              \/ /\ Best(FirstOf(Hits(kind, faction[f])), Hits(kind, faction[f]))
                 /\ found' = [found EXCEPT ![f] = FirstOf(Hits(kind, faction[f]))]
                 /\ fpc' = [fpc EXCEPT ![f] = "found"]
<1> DEFINE hits == Hits(kind, faction[f])
<1>0. Cached' = Cached
  BY DEF Scan, Cached
<1>1. CASE hits = {}
  BY <1>0, <1>1 DEF Scan, TypeOK, tableVars
<1>2. CASE hits # {}
  <2>1. Best(FirstOf(hits), hits)
    BY <1>2, HitsRegistered, FirstOfBest
  <2>2. FirstOf(hits) \in Routes
    BY <2>1, HitsRegistered DEF Best, TypeOK
  <2> HIDE DEF hits
  <2>3. /\ found' = [found EXCEPT ![f] = FirstOf(hits)]
        /\ fpc' = [fpc EXCEPT ![f] = "found"]
    BY <1>2 DEF Scan, hits
  <2> QED
    BY <1>0, <2>1, <2>2, <2>3 DEF Scan, TypeOK, tableVars, hits
<1> QED
  BY <1>1, <1>2

LEMMA NextTypeOK == TypeInv /\ OrderInv /\ [Next]_vars => TypeOK'
<1> SUFFICES ASSUME TypeInv, OrderInv, [Next]_vars
             PROVE  TypeOK'
  OBVIOUS
<1>0. TypeOK
  BY DEF TypeInv
<1>1. ASSUME NEW r \in Routes, Register(r)
      PROVE  TypeOK'
  <2>1. CASE RegisterActionRoute(r)
    BY <1>0, <2>1, AddIsAdded DEF RegisterActionRoute
  <2>2. CASE RegisterCustomRoute(r)
    BY <1>0, <2>2, AddIsAdded DEF RegisterCustomRoute
  <2>3. CASE RegisterPrefixRoute(r)
    BY <1>0, <2>3, AddIsAdded DEF RegisterPrefixRoute
  <2>4. CASE SetDefaultRoute(r)
    <3>1. Cached' = Cached
      BY <1>0, <2>4 DEF SetDefaultRoute, Cached
    <3>2. default' \in OfKind("default") /\ overtaken' \subseteq Finders /\ suspect' \subseteq Actions
      BY <1>0, <2>4 DEF SetDefaultRoute, OfKind, Overtake, Searching, TypeOK
    <3> QED
      BY <1>0, <2>4, <3>1, <3>2 DEF SetDefaultRoute, TypeOK, finderVars
  <2> QED
    BY <1>1, <2>1, <2>2, <2>3, <2>4 DEF Register
<1>2. ASSUME NEW f \in Finders, NEW a \in Actions, FindRoute(f, a)
      PROVE  TypeOK'
  <2>1. Cached' = Cached
    BY <1>0, <1>2 DEF FindRoute, Cached
  <2> QED
    BY <1>0, <1>2, <2>1 DEF FindRoute, TypeOK, tableVars
<1>3. ASSUME NEW f \in Finders, Search(f)
      PROVE  TypeOK'
  <2>1. CASE FastExact(f)
    BY <1>0, <2>1, ScanType DEF FastExact
  <2>2. CASE FastPrefix(f)
    BY <1>0, <2>2, ScanType DEF FastPrefix
  <2>3. CASE FindCustom(f)
    BY <1>0, <2>3, ScanType DEF FindCustom
  <2>4. CASE FindExact(f)
    BY <1>0, <2>4, ScanType DEF FindExact
  <2>5. CASE FindPrefix(f)
    BY <1>0, <2>5, ScanType DEF FindPrefix
  <2>6. CASE FindDefault(f)
    <3>1. Cached' = Cached
      BY <1>0, <2>6 DEF FindDefault, Cached
    <3> QED
      BY <1>0, <2>6, <3>1 DEF FindDefault, TypeOK, tableVars, OfKind
  <2>7. CASE Fill(f)
    <3>1. /\ cache' \in [Actions -> Routes \cup {None}]
          /\ Cardinality(Cached') <= CacheCapacity
          /\ suspect' \subseteq Actions
      <4>1. CASE found[f] = None
        BY <1>0, <4>1, <2>7 DEF Fill, TypeOK, Cached
      <4>2. CASE found[f] # None
        <5>1. faction[f] \in Actions /\ found[f] \in Routes
          BY <1>0, <4>2, <2>7 DEF Fill, TypeInv, TypeOK, Searching
        <5>2. Put(faction[f], found[f]) /\ suspect' \subseteq Actions
          BY <1>0, <5>1, <4>2, <2>7 DEF Fill, TypeOK
        <5> QED
          BY <1>0, <5>1, <5>2, PutType
      <4> QED
        BY <4>1, <4>2
    <3> QED
      BY <1>0, <2>7, <3>1 DEF Fill, TypeOK, tableVars
  <2> QED
    BY <1>3, <2>1, <2>2, <2>3, <2>4, <2>5, <2>6, <2>7 DEF Search
<1>4. ASSUME NEW m \in Modules, RemoveModuleRoutes(m)
      PROVE  TypeOK'
  <2>1. CASE RemoveExact(m) \/ RemoveCustom(m) \/ RemovePrefix(m)
    BY <1>0, <2>1, RemoveIsRemoved DEF RemoveExact, RemoveCustom, RemovePrefix
  <2>2. CASE RemoveDefault(m)
    <3>1. Cached' = Cached
      BY <1>0, <2>2 DEF RemoveDefault, Cached
    <3>2. overtaken' \subseteq Finders
      BY <1>0, <2>2 DEF RemoveDefault, Overtake, Searching, TypeOK
    <3> QED
      BY <1>0, <2>2, <3>1, <3>2 DEF RemoveDefault, TypeOK, finderVars
  <2>3. CASE InvalidateModule(m)
    <3>1. /\ cache' \in [Actions -> Routes \cup {None}]
          /\ Cardinality(Cached') <= CacheCapacity
      BY <1>0, <2>3, ForgetType DEF InvalidateModule
    <3> QED
      BY <1>0, <2>3, <3>1 DEF InvalidateModule, TypeOK, tableVars, finderVars
  <2> QED
    BY <1>4, <2>1, <2>2, <2>3 DEF RemoveModuleRoutes
<1>5. CASE ClearCache
  <2>1. /\ cache' \in [Actions -> Routes \cup {None}]
        /\ Cardinality(Cached') <= CacheCapacity
    BY <1>0, <1>5, ForgetType DEF ClearCache
  <2> QED
    BY <1>0, <1>5, <2>1 DEF ClearCache, TypeOK, tableVars, finderVars
<1>6. CASE UNCHANGED vars
  BY <1>0, <1>6 DEF vars, TypeOK, Cached, tableVars, finderVars
<1> QED
  BY <1>1, <1>2, <1>3, <1>4, <1>5, <1>6 DEF Next

-------------------------------------------------------------------------------
(* Steps that change the tables overtake every lookup in progress *)

LEMMA RegisterStep ==
    ASSUME Inv, NEW r \in Routes, KindOf[r] # "default", Add(r),
           NEW S, Forget(S), Covers[r] \subseteq S
    PROVE  Inv'
<1> USE DEF Inv, TypeInv
<1>1. TypeOK' /\ Added(r)
  BY AddIsAdded
<1>2. OrderInv' /\ \A s, t \in registered : Precedes(s, t) => Precedes(s, t)'
  BY <1>1, AddedOrder
<1>3. /\ UNCHANGED <<default, removal, fpc, faction, found, suspect, steady>>
      /\ Searching' = Searching /\ Searching \subseteq overtaken'
  BY DEF Add, Overtake, Searching, finderVars
<1>4. SearchInv' /\ TypeInv'
  BY <1>1, <1>3 DEF SearchInv
<1>5. CacheInv'
  <2> SUFFICES ASSUME NEW a \in Cached', a \notin suspect', IsAnswer(a, cache[a])
               PROVE  IsAnswer(a, cache[a])'
    BY <1>3, ForgetType DEF CacheInv
  <2>1. cache'[a] = cache[a] /\ a \notin Covers[r]
    BY ForgetType
  <2>0. PICK w : w = cache[a]
    OBVIOUS
  <2>2. \A k : Hits(k, a)' = Hits(k, a)
    BY <1>1, <2>1 DEF Hits, Added
  <2>3. \A s, t \in registered \cap registered' : Precedes(s, t) => Precedes(s, t)'
    BY <1>2
  <2>4. IsAnswer(a, w)
    BY <2>0
  <2>5. IsAnswer(a, w)'
    BY <2>2, <2>3, <2>4, <1>3, AnswerKept
  <2> QED
    BY <2>0, <2>1, <2>5
<1>6. SteadyInv'
  <2> SUFFICES ASSUME NEW f \in Searching
               PROVE  /\ steady[f] \subseteq registered'
                      /\ \A q \in SteadyHits(f)' : KindOf[q] \notin PassedAt(fpc'[f], faction'[f])
                      /\ fpc[f] = "found" => \A q \in SteadyHits(f)' : Wins(f, q)'
    BY <1>3 DEF SteadyInv
  <2>1. SteadyHits(f)' = SteadyHits(f) /\ SteadyHits(f) \subseteq registered
    BY <1>3 DEF SteadyHits, SteadyInv
  <2>2. ASSUME NEW q \in SteadyHits(f), Wins(f, q)
        PROVE  Wins(f, q)'
    BY <2>1, <2>2, <1>2, <1>3 DEF Wins, SteadyInv, OfKind
  <2> QED
    BY <2>1, <2>2, <1>1, <1>3 DEF SteadyInv, Added
<1> QED
  BY <1>2, <1>4, <1>5, <1>6

LEMMA SetDefaultStep ==
    ASSUME Inv, TypeOK', NEW d \in Routes, SetDefaultRoute(d)
    PROVE  Inv'
<1> USE DEF Inv, TypeInv
<1>1. /\ UNCHANGED <<registered, earlier, cache, removal, fpc, faction, found, steady>>
      /\ Searching' = Searching /\ Searching \subseteq overtaken' /\ Cached' = Cached
  BY DEF SetDefaultRoute, Overtake, Searching, finderVars, Cached
<1>2. OrderInv'
  BY <1>1, SameOrder
<1>3. SearchInv' /\ TypeInv'
  BY <1>1 DEF SearchInv
<1>4. CacheInv'
  <2> SUFFICES ASSUME NEW a \in Cached, a \notin suspect', IsAnswer(a, cache[a])
               PROVE  IsAnswer(a, cache[a])'
    BY <1>1 DEF CacheInv, SetDefaultRoute
  <2>1. cache[a] # default /\ cache[a] # None
    BY DEF SetDefaultRoute, Cached, TypeOK
  <2>2. PICK w : w = cache[a] /\ w # default /\ IsAnswer(a, w)
    BY <2>1
  <2>3. IsAnswer(a, w)'
    BY <2>2, <1>1, AnswerKept DEF Hits, Precedes
  <2> QED
    BY <2>2, <2>3, <1>1
<1>5. SteadyInv'
  BY <1>1 DEF SteadyInv, SteadyHits, Wins, Precedes
<1> QED
  BY <1>2, <1>3, <1>4, <1>5

LEMMA RemoveStep ==
    ASSUME Inv, NEW m \in Modules, NEW here, NEW kind,
           NEW next \in {"custom", "prefix", "default"},
           RemoveFrom(m, here, kind, next)
    PROVE  Inv'
<1> USE DEF Inv, TypeInv
<1> DEFINE gone == {r \in registered : KindOf[r] = kind /\ ModuleOf[r] = m}
<1>1. TypeOK' /\ Removed(gone)
  BY RemoveIsRemoved
<1>2. OrderInv' /\ \A s, t \in registered' : Precedes(s, t) => Precedes(s, t)'
  BY <1>1, RemovedOrder
<1>3. /\ UNCHANGED <<default, cache, fpc, faction, found, suspect>>
      /\ removal' = [removal EXCEPT ![m] = next]
      /\ steady' = [f \in Finders |-> steady[f] \ gone]
      /\ Searching' = Searching /\ Searching \subseteq overtaken' /\ Cached' = Cached
  BY DEF RemoveFrom, Overtake, Searching, finderVars, Cached
<1>4. SearchInv' /\ TypeInv'
  BY <1>1, <1>3 DEF SearchInv
<1>5. CacheInv'
  <2> SUFFICES ASSUME NEW a \in Cached, a \notin suspect
               PROVE  \/ IsAnswer(a, cache[a])'
                      \/ removal'[ModuleOf[cache[a]]] # "none"
    BY <1>3 DEF CacheInv
  <2>1. cache[a] \in Routes /\ ModuleOf[cache[a]] \in Modules
    BY RouteAssumption DEF RouteAssumption, Cached, TypeOK
  <2>2. CASE removal[ModuleOf[cache[a]]] # "none" \/ ModuleOf[cache[a]] = m
    BY <2>1, <2>2, <1>3 DEF TypeOK
  <2>3. CASE IsAnswer(a, cache[a]) /\ ModuleOf[cache[a]] # m
    <3>1. PICK w : w = cache[a] /\ w \notin gone /\ IsAnswer(a, w)
      BY <2>3
    <3>2. \A k : Hits(k, a)' = Hits(k, a) \ gone
      BY <1>1 DEF Hits, Removed
    <3>3. \A s, t \in registered \cap registered' : Precedes(s, t) => Precedes(s, t)'
      BY <1>2
    <3>4. IsAnswer(a, w)'
      BY <3>1, <3>2, <3>3, <1>3, AnswerKept
    <3> QED
      BY <3>1, <3>4, <1>3
  <2> QED
    BY <2>2, <2>3 DEF CacheInv
<1>6. SteadyInv'
  <2> SUFFICES ASSUME NEW f \in Searching
               PROVE  /\ steady'[f] \subseteq registered'
                      /\ \A q \in SteadyHits(f)' : KindOf[q] \notin PassedAt(fpc[f], faction[f])
                      /\ fpc[f] = "found" => \A q \in SteadyHits(f)' : Wins(f, q)'
    BY <1>3 DEF SteadyInv
  <2>1. steady'[f] = steady[f] \ gone /\ steady'[f] \subseteq registered'
    BY <1>1, <1>3 DEF SteadyInv, Searching, Removed
  <2>2. SteadyHits(f)' = SteadyHits(f) \ gone /\ SteadyHits(f)' \subseteq registered'
    BY <2>1, <1>3 DEF SteadyHits
  <2>3. ASSUME NEW q \in SteadyHits(f)', Wins(f, q)
        PROVE  Wins(f, q)'
    BY <2>1, <2>2, <2>3, <1>2, <1>3 DEF Wins, OfKind
  <2> QED
    BY <2>1, <2>2, <2>3 DEF SteadyInv
<1> QED
  BY <1>2, <1>4, <1>5, <1>6

LEMMA RemoveDefaultStep ==
    ASSUME Inv, TypeOK', NEW m \in Modules, RemoveDefault(m)
    PROVE  Inv'
<1> USE DEF Inv, TypeInv
<1>1. /\ UNCHANGED <<registered, earlier, cache, fpc, faction, found, steady, suspect>>
      /\ removal' = [removal EXCEPT ![m] = "cache"]
      /\ Searching' = Searching /\ Searching \subseteq overtaken' /\ Cached' = Cached
  BY DEF RemoveDefault, Overtake, Searching, finderVars, Cached
<1>2. OrderInv'
  BY <1>1, SameOrder
<1>3. SearchInv' /\ TypeInv'
  BY <1>1 DEF SearchInv
<1>4. CacheInv'
  <2> SUFFICES ASSUME NEW a \in Cached, a \notin suspect
               PROVE  \/ IsAnswer(a, cache[a])'
                      \/ removal'[ModuleOf[cache[a]]] # "none"
    BY <1>1 DEF CacheInv
  <2>1. cache[a] \in Routes /\ cache[a] # None /\ ModuleOf[cache[a]] \in Modules
    BY RouteAssumption DEF RouteAssumption, Cached, TypeOK
  <2>2. CASE removal[ModuleOf[cache[a]]] # "none" \/ ModuleOf[cache[a]] = m
    BY <2>1, <2>2, <1>1 DEF TypeOK
  <2>3. CASE IsAnswer(a, cache[a]) /\ ModuleOf[cache[a]] # m
    <3>1. PICK w : w = cache[a] /\ w # None /\ ModuleOf[w] # m /\ IsAnswer(a, w)
      BY <2>1, <2>3
    <3>2. w = default => default' = default
      BY <3>1 DEF RemoveDefault
    <3>3. IsAnswer(a, w)'
      BY <3>1, <3>2, <1>1, AnswerKept DEF Hits, Precedes
    <3> QED
      BY <3>1, <3>3, <1>1
  <2> QED
    BY <2>2, <2>3 DEF CacheInv
<1>5. SteadyInv'
  BY <1>1 DEF SteadyInv, SteadyHits, Wins, Precedes
<1> QED
  BY <1>2, <1>3, <1>4, <1>5

\* Steps that only empty parts of the cache.
LEMMA ForgetStep ==
    ASSUME Inv, TypeOK', NEW S, Forget(S),
           UNCHANGED <<tableVars, finderVars, overtaken, suspect, steady>>,
           \A a \in Cached' : removal'[ModuleOf[cache[a]]] = "none"
                                => removal[ModuleOf[cache[a]]] = "none"
    PROVE  Inv'
<1> USE DEF Inv, TypeInv
<1>1. /\ UNCHANGED <<registered, earlier, default, fpc, faction, found, steady, overtaken, suspect>>
      /\ Searching' = Searching
  BY DEF Searching, finderVars, tableVars
<1>2. OrderInv'
  BY <1>1, SameOrder
<1>3. SearchInv' /\ TypeInv'
  BY <1>1 DEF SearchInv, IsAnswer, Best, Hits, Precedes
<1>4. CacheInv'
  <2> SUFFICES ASSUME NEW a \in Cached', a \notin suspect
               PROVE  \/ IsAnswer(a, cache[a])'
                      \/ removal'[ModuleOf[cache'[a]]] # "none"
    BY <1>1 DEF CacheInv
  <2>1. a \in Cached /\ cache'[a] = cache[a]
    BY ForgetType
  <2>2. IsAnswer(a, cache[a])' \/ removal[ModuleOf[cache[a]]] # "none"
    BY <2>1, <1>1 DEF CacheInv, IsAnswer, Best, Hits, Precedes
  <2> QED
    BY <2>1, <2>2
<1>5. SteadyInv'
  BY <1>1 DEF SteadyInv, SteadyHits, Wins, Precedes
<1> QED
  BY <1>2, <1>3, <1>4, <1>5

-------------------------------------------------------------------------------
(* Steps of a lookup *)

Searched == {"custom", "exact", "prefix"}

LEMMA OrderFacts ==
    ASSUME NEW a
    PROVE  /\ \A i \in 1..3 : Order(a)[i] \in Searched
           /\ \A k \in Searched : Rank(k, a) \in 1..3 /\ Order(a)[Rank(k, a)] = k
           /\ \A i \in 1..3 : Rank(Order(a)[i], a) = i
<1>1. \A k \in Searched : \E i \in 1..3 : Order(a)[i] = k
  BY DEF Order, Searched
<1>2. \A k \in Searched : Rank(k, a) \in 1..3 /\ Order(a)[Rank(k, a)] = k
  BY <1>1 DEF Rank
<1>3. \A i \in 1..3 : Order(a)[i] \in Searched
  BY DEF Order, Searched
<1>4. \A i, j \in 1..3 : Order(a)[i] = Order(a)[j] => i = j
  BY DEF Order
<1> QED
  BY <1>2, <1>3, <1>4

\* The table about to be read, and that those before it have been passed.
Due(here, kind, a) ==
    /\ kind \in Searched
    /\ \A k \in Searched : Rank(k, a) < Rank(kind, a) => k \in PassedAt(here, a)

LEMMA DueFacts ==
    ASSUME NEW a
    PROVE  /\ a \in FastActions => Due("fast_exact", "exact", a) /\ Due("fast_prefix", "prefix", a)
           /\ Due("custom", "custom", a) /\ Due("exact", "exact", a) /\ Due("prefix", "prefix", a)
<1>1. CASE a \in FastActions
  <2>1. Rank("exact", a) = 1 /\ Rank("prefix", a) = 2 /\ Rank("custom", a) = 3
    BY <1>1, OrderFacts DEF Order
  <2> QED
    BY <1>1, <2>1 DEF Due, PassedAt, Searched
<1>2. CASE a \notin FastActions
  <2>1. Rank("custom", a) = 1 /\ Rank("exact", a) = 2 /\ Rank("prefix", a) = 3
    BY <1>2, OrderFacts DEF Order
  <2> QED
    BY <1>2, <2>1 DEF Due, PassedAt, Searched
<1> QED
  BY <1>1, <1>2

LEMMA DueAnswers ==
    ASSUME NEW a, NEW here, NEW kind, Due(here, kind, a),
           \A k \in PassedAt(here, a) : Hits(k, a) = {},
           NEW w, Best(w, Hits(kind, a))
    PROVE  IsAnswer(a, w)
<1>1. PICK i \in 1..3 : i = Rank(kind, a) /\ Order(a)[i] = kind
  BY OrderFacts DEF Due
<1>2. \A j \in 1..3 : j < i => Hits(Order(a)[j], a) = {}
  BY <1>1, OrderFacts DEF Due
<1> QED
  BY <1>1, <1>2 DEF IsAnswer

LEMMA ScanStep ==
    ASSUME Inv, NEW f \in Finders, NEW here, NEW kind,
           NEW next \in {"fast_prefix", "custom", "exact", "prefix", "default"},
           Scan(f, here, kind, next), here # "idle",
           Due(here, kind, faction[f]),
           PassedAt(next, faction[f]) \subseteq PassedAt(here, faction[f]) \cup {kind},
           next = "fast_prefix" => faction[f] \in FastActions
    PROVE  Inv'
<1> USE DEF Inv, TypeInv
<1> DEFINE a == faction[f]
<1> DEFINE hits == Hits(kind, a)
<1>1. /\ TypeOK'
      /\ \/ hits = {} /\ fpc' = [fpc EXCEPT ![f] = next] /\ UNCHANGED found
         \/ /\ Best(FirstOf(hits), hits)
            /\ found' = [found EXCEPT ![f] = FirstOf(hits)]
            /\ fpc' = [fpc EXCEPT ![f] = "found"]
  BY ScanType
<1>2. /\ UNCHANGED <<registered, earlier, default, cache, removal, faction, overtaken, suspect, steady>>
      /\ Searching' = Searching /\ f \in Searching /\ fpc[f] = here /\ Cached' = Cached
  <2>1. UNCHANGED <<registered, earlier, default, cache, removal, faction, overtaken, suspect, steady>>
        /\ fpc[f] = here
    BY DEF Scan, tableVars
  <2> QED
    BY <2>1, <1>1 DEF Searching, Cached, TypeOK
<1>3. OrderInv'
  BY <1>2, SameOrder
<1>4. CacheInv'
  BY <1>2 DEF CacheInv, IsAnswer, Best, Hits, Precedes
<1>5. TypeInv'
  BY <1>1, <1>2
<1>6. \A g \in Finders \ {f} : fpc'[g] = fpc[g] /\ found'[g] = found[g]
  BY <1>1 DEF TypeOK
<1>7. \A k, b : Hits(k, b)' = Hits(k, b)
  BY <1>2 DEF Hits
<1>8. \A g, r : /\ SteadyHits(g)' = SteadyHits(g)
                /\ found'[g] = found[g] => (Wins(g, r)' <=> Wins(g, r))
  BY <1>2 DEF SteadyHits, Wins, Precedes
<1>9. SearchInv'
  <2>1. ASSUME NEW g \in Searching \ {f}
        PROVE  /\ fpc'[g] \in {"fast_exact", "fast_prefix"} => faction[g] \in FastActions
               /\ g \notin overtaken =>
                     /\ \A k \in PassedAt(fpc'[g], faction[g]) : Hits(k, faction[g])' = {}
                     /\ fpc'[g] = "found" => IsAnswer(faction[g], found[g])'
    <3>1. fpc'[g] = fpc[g] /\ found'[g] = found[g]
      BY <1>6 DEF Searching
    <3>2. PICK b, w : b = faction[g] /\ w = found[g]
      OBVIOUS
    <3>3. IsAnswer(b, w)' <=> IsAnswer(b, w)
      BY <1>2, AnswerUnchanged DEF tableVars
    <3>4. IsAnswer(faction[g], found[g])' <=> IsAnswer(faction[g], found[g])
      BY <3>1, <3>2, <3>3, <1>2
    <3>5. /\ fpc[g] \in {"fast_exact", "fast_prefix"} => faction[g] \in FastActions
          /\ g \notin overtaken =>
                /\ \A k \in PassedAt(fpc[g], faction[g]) : Hits(k, faction[g]) = {}
                /\ fpc[g] = "found" => IsAnswer(faction[g], found[g])
      BY DEF SearchInv
    <3>6. \A k : Hits(k, faction[g])' = Hits(k, faction[g])
      BY <1>2 DEF Hits
    <3> QED
      BY <3>1, <3>4, <3>5, <3>6
  <2>2. CASE hits = {} /\ fpc' = [fpc EXCEPT ![f] = next]
    <3>1. fpc'[f] = next
      BY <2>2 DEF TypeOK
    <3>2. f \notin overtaken => \A k \in PassedAt(next, a) : Hits(k, a)' = {}
      BY <2>2, <1>2, <1>7 DEF SearchInv
    <3>4. next # "found"
      OBVIOUS
    <3>3. next \in {"fast_exact", "fast_prefix"} => a \in FastActions
      OBVIOUS
    <3> HIDE DEF hits
    <3> QED
      BY <2>1, <3>1, <3>2, <3>3, <3>4, <1>2 DEF SearchInv
  <2>3. CASE Best(FirstOf(hits), hits) /\ found' = [found EXCEPT ![f] = FirstOf(hits)]
             /\ fpc' = [fpc EXCEPT ![f] = "found"]
    <3>1. fpc'[f] = "found" /\ found'[f] = FirstOf(hits)
      BY <2>3 DEF TypeOK
    <3>2. PICK w : w = found'[f]
      OBVIOUS
    <3>3. f \notin overtaken => IsAnswer(a, w)
      BY <3>1, <3>2, <2>3, <1>2, DueAnswers DEF SearchInv
    <3>4. f \notin overtaken => IsAnswer(faction[f], found[f])'
      <4>1. PICK b : b = faction[f]
        OBVIOUS
      <4>2. IsAnswer(b, w)' <=> IsAnswer(b, w)
        BY <1>2, AnswerUnchanged DEF tableVars
      <4> QED
        BY <4>1, <4>2, <3>2, <3>3, <1>2
    <3>5. PassedAt("found", a) = {}
      BY DEF PassedAt
    <3> HIDE DEF hits
    <3> QED
      BY <2>1, <3>1, <3>2, <3>4, <3>5, <1>2 DEF SearchInv
  <2> QED
    BY <1>1, <2>2, <2>3
<1>10. SteadyInv'
  <2>1. ASSUME NEW g \in Searching \ {f}
        PROVE  /\ steady[g] \subseteq registered
               /\ \A r \in SteadyHits(g) : KindOf[r] \notin PassedAt(fpc'[g], faction[g])
               /\ fpc'[g] = "found" => \A r \in SteadyHits(g) : Wins(g, r)'
    BY <1>6, <1>8 DEF SteadyInv, Searching
  <2>2. /\ steady[f] \subseteq registered
        /\ \A r \in SteadyHits(f) : KindOf[r] \notin PassedAt(here, a)
    BY <1>2 DEF SteadyInv
  <2>3. \A r \in SteadyHits(f) : KindOf[r] = kind => r \in hits
    BY <2>2 DEF SteadyHits, Hits
  <2>4. CASE hits = {} /\ fpc' = [fpc EXCEPT ![f] = next]
    <3>1. fpc'[f] = next /\ next # "found"
      BY <2>4 DEF TypeOK
    <3>2. \A r \in SteadyHits(f) : KindOf[r] \notin PassedAt(next, a)
      BY <2>2, <2>3, <2>4
    <3> HIDE DEF hits
    <3> QED
      BY <2>1, <2>2, <3>1, <3>2, <1>2, <1>8 DEF SteadyInv
  <2>5. CASE Best(FirstOf(hits), hits) /\ found' = [found EXCEPT ![f] = FirstOf(hits)]
             /\ fpc' = [fpc EXCEPT ![f] = "found"]
    <3>1. fpc'[f] = "found" /\ found'[f] = FirstOf(hits)
      BY <2>5 DEF TypeOK
    <3>2. PICK w : w = found'[f]
      OBVIOUS
    <3>3. w \in hits /\ \A r \in hits \ {w} : Precedes(w, r)
      BY <3>1, <3>2, <2>5 DEF Best
    <3>4. w \in Routes /\ KindOf[w] = kind /\ w \notin OfKind("default") \cup {None}
      BY <3>3, RouteAssumption DEF RouteAssumption, Hits, TypeOK
    <3>5. ASSUME NEW r \in SteadyHits(f)
          PROVE  Wins(f, r)'
      <4>1. r \in registered /\ r \in Routes /\ KindOf[r] \in Searched
        <5>1. r \in Routes /\ r \in registered /\ KindOf[r] \in Kinds /\ KindOf[r] # "default"
          BY <2>2, RouteAssumption DEF RouteAssumption, SteadyHits, TypeOK, OfKind
        <5> QED
          BY <5>1 DEF Kinds, Searched
      <4>2. ~(Rank(KindOf[r], a) < Rank(kind, a))
        BY <4>1, <2>2 DEF Due
      <4>3. Rank(kind, a) <= Rank(KindOf[r], a)
        BY <4>1, <4>2, OrderFacts DEF Due
      <4>4. KindOf[r] = kind => r = w \/ Precedes(w, r)
        BY <2>3, <3>3
      <4>5. KindOf[r] = kind => Priority[w] >= Priority[r]
        BY <4>4, <4>1, <3>4, RouteAssumption DEF RouteAssumption, Precedes
      <4>6. Precedes(w, r)' <=> Precedes(w, r)
        BY <1>2 DEF Precedes
      <4> HIDE DEF hits
      <4> QED
        BY <4>3, <4>4, <4>5, <4>6, <3>2, <3>4, <1>2 DEF Wins
    <3>6. PassedAt("found", a) = {}
      BY DEF PassedAt
    <3> HIDE DEF hits
    <3> QED
      BY <2>1, <2>2, <3>1, <3>5, <3>6, <1>2, <1>8 DEF SteadyInv
  <2> QED
    BY <1>1, <2>4, <2>5
<1> QED
  BY <1>3, <1>4, <1>5, <1>9, <1>10

LEMMA FindRouteStep ==
    ASSUME Inv, TypeOK', NEW f \in Finders, NEW a \in Actions, FindRoute(f, a)
    PROVE  Inv'
<1> USE DEF Inv, TypeInv
<1>1. /\ UNCHANGED <<registered, earlier, default, cache, removal, found, suspect>>
      /\ fpc'[f] = IF a \in FastActions THEN "fast_exact" ELSE "custom"
      /\ faction'[f] = a /\ steady'[f] = registered
      /\ \A g \in Finders \ {f} :
            /\ fpc'[g] = fpc[g] /\ faction'[g] = faction[g] /\ steady'[g] = steady[g]
            /\ g \in overtaken' <=> g \in overtaken
      /\ Searching' = Searching \cup {f} /\ Cached' = Cached
  <2>1. /\ UNCHANGED <<registered, earlier, default, cache, removal, found, suspect>>
        /\ fpc'[f] = IF a \in FastActions THEN "fast_exact" ELSE "custom"
        /\ faction'[f] = a /\ steady'[f] = registered
        /\ \A g \in Finders \ {f} :
              /\ fpc'[g] = fpc[g] /\ faction'[g] = faction[g] /\ steady'[g] = steady[g]
              /\ g \in overtaken' <=> g \in overtaken
    BY DEF FindRoute, tableVars, TypeOK
  <2> QED
    BY <2>1 DEF Searching, Cached
<1>2. OrderInv'
  BY <1>1, SameOrder
<1>3. TypeInv'
  BY <1>1 DEF Searching
<1>4. CacheInv'
  BY <1>1 DEF CacheInv, IsAnswer, Best, Hits, Precedes
<1>5. PassedAt(fpc'[f], a) = {} /\ fpc'[f] # "found"
  <2>1. CASE a \in FastActions
    BY <2>1, <1>1 DEF PassedAt
  <2>2. CASE a \notin FastActions
    BY <2>2, <1>1 DEF PassedAt
  <2> QED
    BY <2>1, <2>2
<1>6. SearchInv'
  <2>1. ASSUME NEW g \in Searching \ {f}
        PROVE  /\ fpc'[g] \in {"fast_exact", "fast_prefix"} => faction'[g] \in FastActions
               /\ g \notin overtaken' =>
                     /\ \A k \in PassedAt(fpc'[g], faction'[g]) : Hits(k, faction[g])' = {}
                     /\ fpc'[g] = "found" => IsAnswer(faction[g], found[g])'
    <3>1. /\ fpc'[g] = fpc[g] /\ faction'[g] = faction[g] /\ found'[g] = found[g]
          /\ g \in overtaken' <=> g \in overtaken
      BY <1>1 DEF Searching
    <3>2. \A k : Hits(k, faction[g])' = Hits(k, faction[g])
      BY <3>1, <1>1 DEF Hits
    <3>3. IsAnswer(faction[g], found[g])' <=> IsAnswer(faction[g], found[g])
      BY <3>1, <1>1 DEF IsAnswer, Best, Hits, Precedes
    <3>4. /\ fpc[g] \in {"fast_exact", "fast_prefix"} => faction[g] \in FastActions
          /\ g \notin overtaken =>
                /\ \A k \in PassedAt(fpc[g], faction[g]) : Hits(k, faction[g]) = {}
                /\ fpc[g] = "found" => IsAnswer(faction[g], found[g])
      BY DEF SearchInv
    <3> QED
      BY <3>1, <3>2, <3>3, <3>4
  <2> QED
    BY <2>1, <1>1, <1>5 DEF SearchInv
<1>7. SteadyInv'
  <2>1. ASSUME NEW g \in Searching \ {f}
        PROVE  /\ steady'[g] \subseteq registered
               /\ \A r \in SteadyHits(g)' : KindOf[r] \notin PassedAt(fpc'[g], faction'[g])
               /\ fpc'[g] = "found" => \A r \in SteadyHits(g)' : Wins(g, r)'
    <3>1. /\ fpc'[g] = fpc[g] /\ faction'[g] = faction[g] /\ found'[g] = found[g]
          /\ steady'[g] = steady[g]
      BY <1>1 DEF Searching
    <3>2. SteadyHits(g)' = SteadyHits(g) /\ \A r : Wins(g, r)' <=> Wins(g, r)
      BY <3>1, <1>1 DEF SteadyHits, Wins, Precedes
    <3> QED
      BY <3>1, <3>2 DEF SteadyInv
  <2> QED
    BY <2>1, <1>1, <1>5 DEF SteadyInv
<1> QED
  BY <1>2, <1>3, <1>4, <1>6, <1>7

LEMMA FindDefaultStep ==
    ASSUME Inv, TypeOK', NEW f \in Finders, FindDefault(f)
    PROVE  Inv'
<1> USE DEF Inv, TypeInv
<1>1. /\ UNCHANGED <<registered, earlier, default, cache, removal, faction, overtaken, suspect, steady>>
      /\ fpc[f] = "default" /\ fpc'[f] = "found" /\ found'[f] = default
      /\ \A g \in Finders \ {f} : fpc'[g] = fpc[g] /\ found'[g] = found[g]
      /\ Searching' = Searching /\ f \in Searching /\ Cached' = Cached
  <2>1. /\ UNCHANGED <<registered, earlier, default, cache, removal, faction, overtaken, suspect, steady>>
        /\ fpc[f] = "default" /\ fpc'[f] = "found" /\ found'[f] = default
        /\ \A g \in Finders \ {f} : fpc'[g] = fpc[g] /\ found'[g] = found[g]
    BY DEF FindDefault, tableVars, TypeOK
  <2> QED
    BY <2>1 DEF Searching, Cached
<1>2. OrderInv'
  BY <1>1, SameOrder
<1>3. TypeInv'
  BY <1>1
<1>4. CacheInv'
  BY <1>1 DEF CacheInv, IsAnswer, Best, Hits, Precedes
<1>5. PassedAt("default", faction[f]) = Searched /\ PassedAt("found", faction[f]) = {}
  BY DEF PassedAt, Searched
<1>6. SearchInv'
  <2>1. ASSUME NEW g \in Searching \ {f}
        PROVE  /\ fpc'[g] \in {"fast_exact", "fast_prefix"} => faction[g] \in FastActions
               /\ g \notin overtaken =>
                     /\ \A k \in PassedAt(fpc'[g], faction[g]) : Hits(k, faction[g])' = {}
                     /\ fpc'[g] = "found" => IsAnswer(faction[g], found[g])'
    <3>1. fpc'[g] = fpc[g] /\ faction'[g] = faction[g] /\ found'[g] = found[g]
      BY <1>1 DEF Searching
    <3>2. \A k : Hits(k, faction[g])' = Hits(k, faction[g])
      BY <3>1, <1>1 DEF Hits
    <3>3. IsAnswer(faction[g], found[g])' <=> IsAnswer(faction[g], found[g])
      BY <3>1, <1>1 DEF IsAnswer, Best, Hits, Precedes
    <3>4. /\ fpc[g] \in {"fast_exact", "fast_prefix"} => faction[g] \in FastActions
          /\ g \notin overtaken =>
                /\ \A k \in PassedAt(fpc[g], faction[g]) : Hits(k, faction[g]) = {}
                /\ fpc[g] = "found" => IsAnswer(faction[g], found[g])
      BY DEF SearchInv
    <3> QED
      BY <3>1, <3>2, <3>3, <3>4
  <2>2. f \notin overtaken => IsAnswer(faction[f], found[f])'
    <3>1. f \notin overtaken => \A k \in Searched : Hits(k, faction[f]) = {}
      BY <1>1, <1>5 DEF SearchInv
    <3>2. f \notin overtaken => \A k \in Searched : Hits(k, faction[f])' = {}
      BY <3>1, <1>1 DEF Hits
    <3> QED
      BY <3>2, <1>1, OrderFacts DEF IsAnswer
  <2> QED
    BY <2>1, <2>2, <1>1, <1>5 DEF SearchInv
<1>7. SteadyInv'
  <2>1. ASSUME NEW g \in Searching \ {f}
        PROVE  /\ steady[g] \subseteq registered
               /\ \A r \in SteadyHits(g)' : KindOf[r] \notin PassedAt(fpc'[g], faction[g])
               /\ fpc'[g] = "found" => \A r \in SteadyHits(g)' : Wins(g, r)'
    <3>1. fpc'[g] = fpc[g] /\ faction'[g] = faction[g] /\ found'[g] = found[g]
      BY <1>1 DEF Searching
    <3>2. SteadyHits(g)' = SteadyHits(g) /\ \A r : Wins(g, r)' <=> Wins(g, r)
      BY <3>1, <1>1 DEF SteadyHits, Wins, Precedes
    <3> QED
      BY <3>1, <3>2 DEF SteadyInv
  <2>2. SteadyHits(f)' = {} /\ steady[f] \subseteq registered
    <3>1. SteadyHits(f)' = SteadyHits(f) /\ steady[f] \subseteq registered
      BY <1>1 DEF SteadyHits, SteadyInv
    <3>2. ASSUME NEW r \in SteadyHits(f) PROVE FALSE
      <4>1. r \in Routes /\ KindOf[r] \in Kinds /\ KindOf[r] # "default"
        BY <3>1, RouteAssumption DEF RouteAssumption, SteadyHits, TypeOK, OfKind
      <4>2. KindOf[r] \in Searched
        BY <4>1 DEF Kinds, Searched
      <4> QED
        BY <4>2, <1>1, <1>5 DEF SteadyInv
    <3> QED
      BY <3>1, <3>2
  <2> QED
    BY <2>1, <2>2, <1>1 DEF SteadyInv
<1> QED
  BY <1>2, <1>3, <1>4, <1>6, <1>7

LEMMA FillStep ==
    ASSUME Inv, TypeOK', NEW f \in Finders, Fill(f)
    PROVE  Inv'
<1> USE DEF Inv, TypeInv
<1>1. /\ UNCHANGED <<registered, earlier, default, removal>>
      /\ fpc[f] = "found" /\ fpc'[f] = "idle"
      /\ \A g \in Finders \ {f} :
            /\ fpc'[g] = fpc[g] /\ faction'[g] = faction[g] /\ found'[g] = found[g]
            /\ steady'[g] = steady[g]
            /\ g \in overtaken' <=> g \in overtaken
      /\ Searching' = Searching \ {f} /\ f \in Searching
  <2>1. /\ UNCHANGED <<registered, earlier, default, removal>>
        /\ fpc[f] = "found" /\ fpc'[f] = "idle"
        /\ \A g \in Finders \ {f} :
              /\ fpc'[g] = fpc[g] /\ faction'[g] = faction[g] /\ found'[g] = found[g]
              /\ steady'[g] = steady[g]
              /\ g \in overtaken' <=> g \in overtaken
    BY DEF Fill, tableVars, TypeOK
  <2> QED
    BY <2>1 DEF Searching
<1>2. OrderInv'
  BY <1>1, SameOrder
<1>3. TypeInv'
  BY <1>1 DEF Searching
<1>4. CacheInv'
  <2>1. CASE found[f] = None
    BY <2>1, <1>1 DEF Fill, CacheInv, Cached, IsAnswer, Best, Hits, Precedes
  <2>2. CASE found[f] # None
    <3>1. faction[f] \in Actions /\ found[f] \in Routes /\ Put(faction[f], found[f])
      BY <2>2, <1>1 DEF Fill, TypeOK
    <3>2. /\ cache'[faction[f]] = found[f]
          /\ \A b \in Cached' \ {faction[f]} : b \in Cached /\ cache'[b] = cache[b]
      BY <3>1, PutType
    <3>3. ASSUME NEW a \in Cached', a \notin suspect', a # faction[f]
          PROVE  IsAnswer(a, cache[a])' \/ removal'[ModuleOf[cache'[a]]] # "none"
      <4>1. a \in Cached /\ a \notin suspect /\ cache'[a] = cache[a]
        BY <2>2, <3>2, <3>3 DEF Fill
      <4>2. IsAnswer(a, cache[a]) \/ removal[ModuleOf[cache[a]]] # "none"
        BY <4>1 DEF CacheInv
      <4> QED
        BY <4>1, <4>2, <1>1 DEF IsAnswer, Best, Hits, Precedes
    <3>4. ASSUME NEW a \in Cached', a \notin suspect', a = faction[f]
          PROVE  IsAnswer(a, cache[a])'
      <4>1. f \notin overtaken
        BY <2>2, <3>4 DEF Fill
      <4>2. PICK w : w = found[f] /\ IsAnswer(a, w)
        BY <4>1, <3>4, <1>1 DEF SearchInv
      <4>3. IsAnswer(a, w)'
        BY <4>2, <1>1, AnswerUnchanged DEF tableVars
      <4> QED
        BY <4>2, <4>3, <3>2, <3>4
    <3> QED
      BY <3>3, <3>4 DEF CacheInv
  <2> QED
    BY <2>1, <2>2
<1>5. SearchInv'
  <2>1. ASSUME NEW g \in Searching \ {f}
        PROVE  /\ fpc'[g] \in {"fast_exact", "fast_prefix"} => faction'[g] \in FastActions
               /\ g \notin overtaken' =>
                     /\ \A k \in PassedAt(fpc'[g], faction'[g]) : Hits(k, faction[g])' = {}
                     /\ fpc'[g] = "found" => IsAnswer(faction[g], found[g])'
    <3>1. /\ fpc'[g] = fpc[g] /\ faction'[g] = faction[g] /\ found'[g] = found[g]
          /\ g \in overtaken' <=> g \in overtaken
      BY <1>1 DEF Searching
    <3>2. \A k : Hits(k, faction[g])' = Hits(k, faction[g])
      BY <3>1, <1>1 DEF Hits
    <3>3. IsAnswer(faction[g], found[g])' <=> IsAnswer(faction[g], found[g])
      BY <3>1, <1>1 DEF IsAnswer, Best, Hits, Precedes
    <3>4. /\ fpc[g] \in {"fast_exact", "fast_prefix"} => faction[g] \in FastActions
          /\ g \notin overtaken =>
                /\ \A k \in PassedAt(fpc[g], faction[g]) : Hits(k, faction[g]) = {}
                /\ fpc[g] = "found" => IsAnswer(faction[g], found[g])
      BY DEF SearchInv
    <3> QED
      BY <3>1, <3>2, <3>3, <3>4
  <2> QED
    BY <2>1, <1>1 DEF SearchInv
<1>6. SteadyInv'
  <2>1. ASSUME NEW g \in Searching \ {f}
        PROVE  /\ steady'[g] \subseteq registered
               /\ \A r \in SteadyHits(g)' : KindOf[r] \notin PassedAt(fpc'[g], faction'[g])
               /\ fpc'[g] = "found" => \A r \in SteadyHits(g)' : Wins(g, r)'
    <3>1. /\ fpc'[g] = fpc[g] /\ faction'[g] = faction[g] /\ found'[g] = found[g]
          /\ steady'[g] = steady[g]
      BY <1>1 DEF Searching
    <3>2. SteadyHits(g)' = SteadyHits(g) /\ \A r : Wins(g, r)' <=> Wins(g, r)
      BY <3>1, <1>1 DEF SteadyHits, Wins, Precedes
    <3> QED
      BY <3>1, <3>2 DEF SteadyInv
  <2> QED
    BY <2>1, <1>1 DEF SteadyInv
<1> QED
  BY <1>2, <1>3, <1>4, <1>5, <1>6

-------------------------------------------------------------------------------
(* The theorems *)

LEMMA NextInv == Inv /\ [Next]_vars => Inv'
<1> SUFFICES ASSUME Inv, [Next]_vars
             PROVE  Inv'
  OBVIOUS
<1>1. TypeOK'
  BY NextTypeOK DEF Inv
<1>2. ASSUME NEW r \in Routes, Register(r)
      PROVE  Inv'
  <2>1. CASE RegisterActionRoute(r)
    BY <2>1, RegisterStep DEF RegisterActionRoute
  <2>2. CASE RegisterCustomRoute(r)
    <3>1. Covers[r] \subseteq Actions
      BY RouteAssumption DEF RouteAssumption
    <3> QED
      BY <2>2, <3>1, RegisterStep DEF RegisterCustomRoute
  <2>3. CASE RegisterPrefixRoute(r)
    BY <2>3, RegisterStep DEF RegisterPrefixRoute
  <2>4. CASE SetDefaultRoute(r)
    BY <2>4, <1>1, SetDefaultStep
  <2> QED
    BY <1>2, <2>1, <2>2, <2>3, <2>4 DEF Register
<1>3. ASSUME NEW f \in Finders, Search(f)
      PROVE  Inv'
  <2> DEFINE a == faction[f]
  <2>2. CASE FastExact(f)
    <3>1. fpc[f] = "fast_exact" /\ a \in FastActions
      BY <2>2 DEF FastExact, Scan, Inv, SearchInv, Searching
    <3>2. PassedAt("fast_prefix", a) \subseteq PassedAt("fast_exact", a) \cup {"exact"}
      BY DEF PassedAt
    <3> QED
      BY <2>2, <3>1, <3>2, DueFacts, ScanStep DEF FastExact
  <2>3. CASE FastPrefix(f)
    <3>1. fpc[f] = "fast_prefix" /\ a \in FastActions
      BY <2>3 DEF FastPrefix, Scan, Inv, SearchInv, Searching
    <3>2. PassedAt("custom", a) \subseteq PassedAt("fast_prefix", a) \cup {"prefix"}
      BY <3>1 DEF PassedAt
    <3> QED
      BY <2>3, <3>1, <3>2, DueFacts, ScanStep DEF FastPrefix
  <2>4. CASE FindCustom(f)
    <3>1. PassedAt("exact", a) \subseteq PassedAt("custom", a) \cup {"custom"}
      BY DEF PassedAt
    <3> QED
      BY <2>4, <3>1, DueFacts, ScanStep DEF FindCustom
  <2>5. CASE FindExact(f)
    <3>1. PassedAt("prefix", a) \subseteq PassedAt("exact", a) \cup {"exact"}
      BY DEF PassedAt
    <3> QED
      BY <2>5, <3>1, DueFacts, ScanStep DEF FindExact
  <2>6. CASE FindPrefix(f)
    <3>1. PassedAt("default", a) \subseteq PassedAt("prefix", a) \cup {"prefix"}
      BY DEF PassedAt
    <3> QED
      BY <2>6, <3>1, DueFacts, ScanStep DEF FindPrefix
  <2>7. CASE FindDefault(f)
    BY <2>7, <1>1, FindDefaultStep
  <2>8. CASE Fill(f)
    BY <2>8, <1>1, FillStep
  <2> QED
    BY <1>3, <2>2, <2>3, <2>4, <2>5, <2>6, <2>7, <2>8 DEF Search
<1>4. ASSUME NEW m \in Modules, RemoveModuleRoutes(m)
      PROVE  Inv'
  <2>1. CASE RemoveExact(m) \/ RemoveCustom(m) \/ RemovePrefix(m)
    BY <2>1, RemoveStep DEF RemoveExact, RemoveCustom, RemovePrefix
  <2>2. CASE RemoveDefault(m)
    BY <2>2, <1>1, RemoveDefaultStep
  <2>3. CASE InvalidateModule(m)
    <3> DEFINE S == {a \in Cached : ModuleOf[cache[a]] = m}
    <3>1. Forget(S) /\ UNCHANGED <<tableVars, finderVars, overtaken, suspect, steady>>
          /\ removal' = [removal EXCEPT ![m] = "none"]
      BY <2>3 DEF InvalidateModule
    <3>2. \A a \in Cached' : a \in Cached /\ ModuleOf[cache[a]] # m
      BY <3>1, ForgetType DEF Inv, TypeInv
    <3>3. \A a \in Cached' : removal'[ModuleOf[cache[a]]] = removal[ModuleOf[cache[a]]]
      BY <3>1, <3>2 DEF Inv, TypeInv, TypeOK
    <3> QED
      BY <3>1, <3>3, <1>1, ForgetStep
  <2> QED
    BY <1>4, <2>1, <2>2, <2>3 DEF RemoveModuleRoutes
<1>5. CASE ClearCache
  BY <1>5, <1>1, ForgetStep DEF ClearCache
<1>6. CASE UNCHANGED vars
  <2>1. Forget({})
    BY <1>6 DEF vars, Forget, Inv, TypeInv, TypeOK
  <2> QED
    BY <2>1, <1>6, <1>1, ForgetStep DEF vars
<1> QED
  BY <1>2, <1>3, <1>4, <1>5, <1>6, <1>1, FindRouteStep DEF Next

LEMMA InvCorrect == Spec => []Inv
  BY InitInv, NextInv, PTL DEF Spec

\* Every variable of the route table keeps its type, and RouteCache holds at
\* most CacheCapacity entries.
THEOREM TypeCorrect == Spec => []TypeOK
<1>1. Inv => TypeOK
  BY DEF Inv, TypeInv
<1> QED
  BY InvCorrect, <1>1, PTL

\* However registrations, removals and lookups interleave, what RouteCache
\* holds for an action is what find_route would find, unless a lookup that
\* was overtaken has filled it, its default has been replaced or its module
\* is being removed.
THEOREM CacheAlwaysCoherent == Spec => []CacheCoherent
<1>1. Inv => CacheCoherent
  BY AnswerResolves DEF Inv, TypeInv, CacheInv, CacheCoherent
<1> QED
  BY InvCorrect, <1>1, PTL

\* find_route, which reads one table after the other, never passes over a
\* route that was registered from its first step to its last.
THEOREM SteadyRoutesWin == Spec => []SteadyRouteWins
<1>1. Inv => SteadyRouteWins
  <2> SUFFICES ASSUME Inv, NEW f \in Finders, fpc[f] = "found",
                      NEW r \in steady[f] \cap Enabled, faction[f] \in Covers[r]
               PROVE  Wins(f, r)
    BY DEF SteadyRouteWins, Wins
  <2> QED
    BY DEF Inv, SteadyInv, SteadyHits, Searching
<1> QED
  BY InvCorrect, <1>1, PTL
===============================================================================
