----------------------------- MODULE LatencyStats -----------------------------
(***************************************************************************)
(* The counters of MetricsCollector (src/utils/metrics.rs) and RouterStats *)
(* (src/router/router.rs; it has no samples).  Each counter is an atomic,  *)
(* used with relaxed ordering: what a record adds to the total and to its  *)
(* outcome, and what a snapshot loads, takes effect in any order.  The sum *)
(* goes with the total and the timeouts with the outcome, as nothing below *)
(* tells when.  A reset stores in the order of the code: a record that it  *)
(* meets is exempt from what is said below.                                *)
(***************************************************************************)
EXTENDS Integers, Sequences, SequencesExt, FiniteSets

CONSTANTS Recorders,  \* threads that record requests
          Results,    \* what they record, as [ok, timeout, latency]
          U64Max,     \* the minimum of nothing
          Histories,  \* sequences of results recorded before, so that a window fills soon
          MaxSamples, \* room for samples
          MaxRecords, \* bound: records in all
          MaxObservations, \* bound: snapshots, percentiles and resets
          Ranks       \* percentiles that are asked for, as shares <<of, whole>>

ASSUME LatencyStatsAssumption ==
    /\ IsFiniteSet(Recorders)
    /\ U64Max \in Nat /\ \A r \in Results : r.latency \in 0..U64Max - 1 /\ (r.timeout => ~r.ok)
    /\ MaxSamples \in Nat \ {0, 1}
    /\ \A h \in Histories : h \in Seq(Results) /\ Len(h) <= MaxSamples
    /\ \A rank \in Ranks : rank[1] \in Nat /\ rank[2] \in Nat \ {0} /\ rank[1] <= rank[2]

VARIABLES counters,
          samples,
          recorder,   \* each thread: what it records and has still to do
          reader,     \* a snapshot being taken
          resetting,  \* what a reset has still to clear, in order
          begun,      \* the records begun since the last reset
          crossed,    \* that reset and a record were under way at once
          pushed,     \* the samples pushed since they were cleared
          sorted,     \* a percentile has put them in another order
          recordsLeft, observationsLeft

latencyVars == <<counters, samples, recorder, reader, resetting, begun, crossed, pushed,
                 sorted, recordsLeft, observationsLeft>>
countVars == <<reader, resetting, begun, crossed, recordsLeft, observationsLeft>>
sampleVars == <<samples, pushed, sorted>>

Counted == {"total", "ok", "failed", "timeouts", "sum"}
Counters == Counted \cup {"min", "max"}
Zero == [c \in Counters |-> IF c = "min" THEN U64Max ELSE 0]

Groups == {{"total", "sum"}, {"ok", "failed", "timeouts"}}

Idle == [place |-> "idle", todo |-> {}, adds |-> [c \in Counted |-> 0], seen |-> 0]
Loaded == {"total", "ok", "failed"}
NoReader == [todo |-> {}, got |-> [c \in Loaded |-> 0], met |-> 0, crossed |-> FALSE]
ResetOrder == <<"total", "ok", "failed", "timeouts", "sum", "min", "max", "samples">>

Adds(r) == [total |-> 1, ok |-> IF r.ok THEN 1 ELSE 0, failed |-> IF r.ok THEN 0 ELSE 1,
            timeouts |-> IF r.timeout THEN 1 ELSE 0, sum |-> r.latency]

\* What the counters say of one more record, and of these.
CountOne(n, adds) ==
    [c \in Counters |->
        CASE c = "min" -> IF adds.sum < n[c] THEN adds.sum ELSE n[c]
          [] c = "max" -> IF adds.sum > n[c] THEN adds.sum ELSE n[c]
          [] OTHER -> n[c] + adds[c]]
Counts(records) == FoldLeft(CountOne, Zero, records)

LatencyInit ==
    /\ \E h \in Histories :
          /\ begun = [i \in DOMAIN h |-> Adds(h[i])]
          /\ samples = [i \in DOMAIN h |-> h[i].latency]
    /\ counters = Counts(begun) /\ pushed = samples /\ sorted = FALSE
    /\ recorder = [t \in Recorders |-> Idle]
    /\ reader = NoReader
    /\ resetting = <<>> /\ crossed = FALSE
    /\ recordsLeft = MaxRecords /\ observationsLeft = MaxObservations

Busy == {t \in Recorders : recorder[t].place # "idle"}
Reading == reader.todo # {}

--------------------------------------------------------------------------------
(* record_route() and record().                                            *)
BeginRecord(t, r) ==
    /\ recorder[t].place = "idle" /\ recordsLeft > 0
    /\ recordsLeft' = recordsLeft - 1
    /\ recorder' = [recorder EXCEPT ![t] =
           [Idle EXCEPT !.place = "add", !.adds = Adds(r), !.todo = Groups]]
    /\ begun' = Append(begun, Adds(r))
    /\ reader' = [reader EXCEPT !.met = IF Reading THEN @ + 1 ELSE @]
    /\ crossed' = (crossed \/ resetting # <<>>)
    /\ UNCHANGED <<counters, sampleVars, resetting, observationsLeft>>

Added(w, group) ==
    [w EXCEPT !.todo = w.todo \ {group}, !.place = IF w.todo = {group} THEN "loadMin" ELSE "add"]

Add(t, group) ==
    /\ recorder[t].place = "add" /\ group \in recorder[t].todo
    /\ counters' = [c \in Counters |-> IF c \in group THEN counters[c] + recorder[t].adds[c]
                                        ELSE counters[c]]
    /\ recorder' = [recorder EXCEPT ![t] = Added(recorder[t], group)]
    /\ UNCHANGED <<countVars, sampleVars>>

LoadExtreme(t, from, c, to) ==
    /\ recorder[t].place = from
    /\ recorder' = [recorder EXCEPT ![t] = [@ EXCEPT !.place = to, !.seen = counters[c]]]
    /\ UNCHANGED <<counters, countVars, sampleVars>>

\* A compare-and-exchange that fails has seen what is there by now, and is tried again.
ExchangeExtreme(t, from, c, beats, to) ==
    /\ recorder[t].place = from
    /\ IF beats /\ counters[c] # recorder[t].seen
       THEN /\ recorder' = [recorder EXCEPT ![t] = [@ EXCEPT !.seen = counters[c]]]
            /\ UNCHANGED counters
       ELSE /\ counters' = [counters EXCEPT ![c] = IF beats THEN recorder[t].adds.sum ELSE @]
            /\ recorder' = [recorder EXCEPT ![t] = [@ EXCEPT !.place = to]]
    /\ UNCHANGED <<countVars, sampleVars>>

UpdateMin(t) ==
    \/ LoadExtreme(t, "loadMin", "min", "min")
    \/ ExchangeExtreme(t, "min", "min", recorder[t].adds.sum < recorder[t].seen, "loadMax")
UpdateMax(t) ==
    \/ LoadExtreme(t, "loadMax", "max", "max")
    \/ ExchangeExtreme(t, "max", "max", recorder[t].adds.sum > recorder[t].seen, "push")

\* Of a full window the first half is removed.
Room(s) == IF Len(s) >= MaxSamples THEN SubSeq(s, Len(s) \div 2 + 1, Len(s)) ELSE s

PushSample(t) ==
    /\ recorder[t].place = "push"
    /\ samples' = Append(Room(samples), recorder[t].adds.sum)
    /\ pushed' = Append(pushed, recorder[t].adds.sum)
    /\ recorder' = [recorder EXCEPT ![t] = Idle]
    /\ UNCHANGED <<counters, countVars, sorted>>

--------------------------------------------------------------------------------
(* Snapshots, percentiles and resets.                                      *)
BeginSnapshot ==
    /\ observationsLeft > 0 /\ ~Reading /\ resetting = <<>>
    /\ observationsLeft' = observationsLeft - 1
    /\ reader' = [NoReader EXCEPT !.todo = Loaded, !.met = Cardinality(Busy), !.crossed = crossed]
    /\ UNCHANGED <<counters, recorder, sampleVars, resetting, begun, crossed, recordsLeft>>

\* Mutant: the total is loaded for the successes.
LoadTotalTwice(c) ==
    /\ c \in reader.todo
    /\ reader' = [reader EXCEPT !.todo = @ \ {c},
                                !.got[c] = counters[IF c = "ok" THEN "total" ELSE c]]
    /\ UNCHANGED <<counters, recorder, sampleVars, resetting, begun, crossed, recordsLeft, observationsLeft>>

LoadCounter(c) ==
    /\ c \in reader.todo
    /\ reader' = [reader EXCEPT !.todo = @ \ {c}, !.got[c] = counters[c]]
    /\ UNCHANGED <<counters, recorder, sampleVars, resetting, begun, crossed, recordsLeft, observationsLeft>>

\* The sequence with its positions exchanged so that it ascends.
InOrder(s) ==
    LET order == CHOOSE p \in {q \in [DOMAIN s -> DOMAIN s] : IsInjective(q)} :
                     \A i, j \in DOMAIN s : i <= j => s[p[i]] <= s[p[j]]
    IN  [i \in DOMAIN s |-> s[order[i]]]

\* The nearest rank, rounded up.
Percentile(s, rank) ==
    IF s = <<>> THEN 0
    ELSE LET n == (Len(s) * rank[1] + rank[2] - 1) \div rank[2]
         IN InOrder(s)[IF n = 0 THEN 1 ELSE n]

\* get_percentile sorts the samples where they are.
TakePercentile ==
    /\ observationsLeft > 0 /\ samples # InOrder(samples)
    /\ samples' = InOrder(samples) /\ sorted' = TRUE
    /\ observationsLeft' = observationsLeft - 1
    /\ UNCHANGED <<counters, recorder, reader, resetting, begun, crossed, pushed, recordsLeft>>

BeginReset ==
    /\ observationsLeft > 0 /\ resetting = <<>> /\ ~Reading
    /\ observationsLeft' = observationsLeft - 1
    /\ resetting' = ResetOrder
    /\ begun' = <<>> /\ crossed' = (Busy # {})
    /\ UNCHANGED <<counters, recorder, reader, sampleVars, recordsLeft>>

ResetNext ==
    /\ resetting # <<>>
    /\ resetting' = Tail(resetting)
    /\ IF Head(resetting) = "samples"
       THEN /\ samples' = <<>> /\ pushed' = <<>> /\ sorted' = FALSE
            /\ UNCHANGED counters
       ELSE /\ counters' = [counters EXCEPT ![Head(resetting)] = Zero[Head(resetting)]]
            /\ UNCHANGED sampleVars
    /\ UNCHANGED <<recorder, reader, begun, crossed, recordsLeft, observationsLeft>>

LatencyNext ==
    \/ \E t \in Recorders :
          \/ \E r \in Results : BeginRecord(t, r)
          \/ \E group \in Groups : Add(t, group)
          \/ UpdateMin(t) \/ UpdateMax(t) \/ PushSample(t)
    \/ BeginSnapshot
    \/ \E c \in Loaded : LoadCounter(c)
    \/ TakePercentile
    \/ BeginReset \/ ResetNext

LatencySpec == LatencyInit /\ [][LatencyNext]_latencyVars

--------------------------------------------------------------------------------
\* When nothing is under way the counters say exactly what was recorded since the last reset,
\* unless that reset met a record on its way.
CountersExactAtRest == (Busy = {} /\ resetting = <<>> /\ ~crossed) => counters = Counts(begun)

\* The outcomes of a snapshot differ from its total by no more than the records that were
\* under way while it was taken, and so may exceed it: a success rate above one.  A reset
\* that met a record can leave any difference.
SnapshotOffByRecordsMet ==
    (~Reading /\ ~reader.crossed) =>
        LET outcomes == reader.got.ok + reader.got.failed IN
        /\ outcomes - reader.got.total <= reader.met
        /\ reader.got.total - outcomes <= reader.met

\* The window holds the newest samples, the last ones pushed, unless a percentile sorted it:
\* then what is removed is the lower half and not the older.
WindowIsNewest ==
    /\ Len(samples) <= MaxSamples
    /\ ~sorted => IsSuffix(samples, pushed)
    /\ Len(pushed) < MaxSamples => InOrder(samples) = InOrder(pushed)

\* A percentile is a sample that at least the share asked for does not exceed, while fewer
\* are below it.
PercentileIsRank ==
    samples # <<>> => \A rank \in Ranks :
        LET v == Percentile(samples, rank)
            upTo == Cardinality({i \in DOMAIN samples : samples[i] <= v})
            below == Cardinality({i \in DOMAIN samples : samples[i] < v})
        IN /\ v \in ToSet(samples)
           /\ upTo * rank[2] >= Len(samples) * rank[1]
           /\ below > 0 => below * rank[2] < Len(samples) * rank[1]

\* The figures of the statistics: counts and samples.
FiguresHold ==
    CountersExactAtRest /\ SnapshotOffByRecordsMet /\ WindowIsNewest /\ PercentileIsRank
================================================================================
