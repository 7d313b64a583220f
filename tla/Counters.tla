------------------------------ MODULE Counters ------------------------------
(***************************************************************************)
(* What the per-key charts make of a cumulative counter (dbutil.py:76-88,  *)
(* db.py:635-656, 847-1085).  LiteLLM reports a running total per key; the *)
(* monitor samples it, misses some of it, and sees it re-based now and     *)
(* then: a key issued anew, a budget period that rolls.  A chart of a      *)
(* window has only the samples, and adds up their positive steps.          *)
(*                                                                         *)
(* One key stands for all, as no operator relates two, and its raw samples *)
(* for every tier.                                                         *)
(***************************************************************************)
EXTENDS Integers, Sequences, FiniteSets, FiniteSetsExt, Functions

CONSTANTS LastTick,   \* bound: the ticks are 1..LastTick
          MaxMade,    \* bound: requests of a tick
          Rebases,    \* what a counter may be re-based to
          Lookback,   \* how far _prewindow_baseline looks
          BucketLen   \* ticks of a bucket of the chart

VARIABLES
    tick,
    counter, \* the running total of LiteLLM
    sample,  \* key_series: a function from the ticks sampled
    \* History:
    made,    \* the requests of each tick
    rebased  \* the ticks in which the counter was re-based

vars == <<tick, counter, sample, made, rebased>>

Init == /\ tick = 0 /\ counter = 0 /\ sample = << >> /\ made = << >> /\ rebased = {}

\* A tick in which n requests are made, after the counter was re-based if base is
\* not its value.
Pass(n, base) ==
    /\ tick < LastTick /\ tick' = tick + 1
    /\ counter' = base + n
    /\ made' = Append(made, n)
    /\ rebased' = IF base = counter THEN rebased ELSE rebased \cup {tick'}

\* insert_key_series, unless the poll of the tick failed.
Sampled == sample' = [t \in DOMAIN sample \cup {tick'} |->
                         IF t = tick' THEN counter' ELSE sample[t]]

Advance == \E n \in 0..MaxMade, base \in {r \in Rebases : r < counter} \cup {counter} :
            /\ Pass(n, base)
            /\ Sampled \/ UNCHANGED sample

\* The window of the model ends.
Done == tick = LastTick /\ UNCHANGED vars

Next == Advance \/ Done
Spec == Init /\ [][Next]_vars

-----------------------------------------------------------------------------
None == -1

\* _pos_step
PosStep(cur, prev) == IF prev # None /\ cur > prev THEN cur - prev ELSE 0

Samples(first, last) == {t \in DOMAIN sample : t \in first..last}

\* Mutant of Baseline: a window begins with its own first sample.
BaselineNone(first) == None

\* _prewindow_baseline: the last sample before the window, if it is not too old.
Baseline(first) ==
    LET S == Samples(first - Lookback, first - 1)
    IN  IF S = {} THEN None ELSE sample[Max(S)]

\* The reading before the one at t.
Before(t, first) ==
    LET S == Samples(first, t - 1) IN IF S = {} THEN Baseline(first) ELSE sample[Max(S)]

\* key_series_window_delta of the window first..last.
WindowDelta(first, last) ==
    SumFunction([t \in Samples(first, last) |-> PosStep(sample[t], Before(t, first))])

\* The samples of each bucket of the window that has one.
Buckets(first, last) ==
    LET S == Samples(first, last)
    IN  {{t \in S : (t - first) \div BucketLen = b} : b \in {(t - first) \div BucketLen : t \in S}}

\* Unit times the average of a bucket, to be a number of requests.
Unit == 2
Average(B) == (Unit * SumFunctionOnSet(sample, B)) \div Cardinality(B)

\* A line of positive steps from bucket to bucket, from a value before the first.
Line(BB, base) ==
    LET Previous(B) == LET P == {C \in BB : Max(C) < Min(B)}
                       IN  IF P = {} THEN base
                           ELSE Average(CHOOSE C \in P : \A O \in P : Max(C) >= Max(O))
    IN  SumFunction([B \in BB |-> PosStep(Average(B), Previous(B))])

\* key_delta_series: where the line of the window ends.  It looks further back.
DeltaSeries(first, last) ==
    LET S == Samples(first - 4 * BucketLen, first - 1)
    IN  Line(Buckets(first, last), IF S = {} THEN None ELSE Unit * sample[Max(S)])

\* key_series with monotonic: the line begins at the first average.
MonotonicSeries(first, last) ==
    LET BB == Buckets(first, last)
    IN  IF BB = {} THEN 0
        ELSE Line(BB, None) + Average(CHOOSE B \in BB : \A C \in BB : Min(B) <= Min(C))

-----------------------------------------------------------------------------
Windows == {w \in (1..tick) \X (1..tick) : w[1] <= w[2]}

\* Where the steps of a window begin, and what was made from there on.
From(first, last) ==
    LET S == Samples(first - Lookback, first - 1)
    IN  IF S # {} THEN Max(S) ELSE Min(Samples(first, last))
Made(after, last) == SumFunctionOnSet(made, after + 1 .. last)

TypeOK == /\ tick \in 0..LastTick /\ DOMAIN made = 1..tick
          /\ DOMAIN sample \subseteq 1..tick /\ rebased \subseteq 1..tick

\* A window is credited with no more than what was requested in it and since the
\* sample before it, whatever the counter was re-based to; and with all of it when
\* the counter was not (dbutil.py:76-88, db.py:970-1000).
DeltaIsActivity ==
    \A w \in Windows : LET S == Samples(w[1], w[2]) IN
        IF S = {} THEN WindowDelta(w[1], w[2]) = 0
        ELSE LET begin == From(w[1], w[2])
                 real  == Made(begin, Max(S))
             IN  /\ WindowDelta(w[1], w[2]) <= real
                 /\ rebased \cap (begin + 1 .. Max(S)) = {} => WindowDelta(w[1], w[2]) = real

\* Two windows that meet are credited together with what the window they make is,
\* unless nothing was sampled for longer than the lookback before they meet: zooming
\* in on a part moves no activity out of it (db.py:934-951).
ZoomAttributes ==
    \A w \in Windows : \A m \in w[1] .. w[2] - 1 :
        LET parts == WindowDelta(w[1], m) + WindowDelta(m + 1, w[2]) IN
        /\ parts <= WindowDelta(w[1], w[2])
        /\ Samples(m + 1 - Lookback, m) # {} => parts = WindowDelta(w[1], w[2])

\* The line of a window ends no higher than its bar, if both find the same sample
\* before it, and the line that only rises climbs by no more than that: neither is
\* credited anything for a step down (db.py:1067-1078, 914-929; dbutil.py:76-87).
LinesBelowBar ==
    \A w \in Windows :
        LET bar == Unit * WindowDelta(w[1], w[2])
            S   == Samples(w[1], w[2])
        IN  /\ (Samples(w[1] - 4 * BucketLen, w[1] - 1) # {} => Baseline(w[1]) # None)
                  => DeltaSeries(w[1], w[2]) <= bar
            /\ S # {} => MonotonicSeries(w[1], w[2])
                            <= bar + Unit * Max({sample[t] : t \in S})

\* What key_delta_series says, that a step down "contributes the bucket's own value
\* instead" (db.py:1040-1041): it contributes nothing.
DropCountsItself ==
    \A w \in Windows : \A B, C \in Buckets(w[1], w[2]) :
        Max(C) < Min(B) /\ Average(B) < Average(C) => DeltaSeries(w[1], w[2]) >= Average(B)
=============================================================================
