----------------------------- MODULE Attribution -----------------------------
(***************************************************************************)
(* Who was behind the load of the proxy (db.concurrency_by_key).  LiteLLM  *)
(* reports one total of the work in flight, and apart from it, on another  *)
(* cadence, what each key or model has used.  The total of each bucket is  *)
(* split by the activity in it, or in the nearest bucket that saw any; the *)
(* labels that did most are named, the rest is "Other".                    *)
(*                                                                         *)
(* One reading stands for the average of a bucket (Counters), and shares   *)
(* are counted in units of 1/Scale, without the rounding to three digits.  *)
(* A window zoomed into keeps the grid of buckets.                         *)
(***************************************************************************)
EXTENDS Integers, FiniteSets, FiniteSetsExt, Functions

CONSTANTS Labels, LastBucket,
          Totals,   \* bound: totals per bucket, None where there is none
          MaxGap,   \* buckets in two heavy polls, and one more
          Lookback, \* how many buckets _prewindow_baseline looks back
          TopN, Scale,
          MaxRows   \* bound: readings and gauges

VARIABLES
    total,      \* the averages of conc or backlog
    reading,    \* key_series or model_series: from <<bucket, label>>
    gauge,      \* model_conc_series, likewise
    cumulative, \* whether readings are running totals (lite and off) or counts
    bymodel,    \* whether labels are models or keys
    nameable    \* the keys that are neither excluded, hidden nor unconfirmed

vars == <<total, reading, gauge, cumulative, bymodel, nameable>>

Bucket == 0..LastBucket
None   == -1

Init ==
    /\ total \in Totals /\ cumulative \in BOOLEAN /\ bymodel \in BOOLEAN
    /\ reading = << >> /\ gauge = << >> /\ nameable = Labels

Room == Cardinality(DOMAIN reading) + Cardinality(DOMAIN gauge) < MaxRows
Put(f, x, v) == [y \in DOMAIN f \cup {x} |-> IF y = x THEN v ELSE f[y]]

Use(x, v) ==
    /\ Room /\ x \notin DOMAIN reading /\ reading' = Put(reading, x, v)
    /\ UNCHANGED <<total, gauge, cumulative, bymodel, nameable>>

\* vLLM says how many requests of its model run, or wait, at this moment.
Gauge(x, v) ==
    /\ bymodel /\ Room /\ x \notin DOMAIN gauge /\ gauge' = Put(gauge, x, v)
    /\ UNCHANGED <<total, reading, cumulative, bymodel, nameable>>

Hide(l) ==
    /\ nameable' = IF l \in nameable THEN nameable \ {l} ELSE nameable \cup {l}
    /\ UNCHANGED <<total, reading, gauge, cumulative, bymodel>>

Next == \/ \E x \in Bucket \X Labels : \/ \E v \in {1, 2} : Use(x, v)
                                       \/ \E v \in {0, 1} : Gauge(x, v)
        \/ \E l \in Labels : Hide(l)

Spec == Init /\ [][Next]_vars

-----------------------------------------------------------------------------
PosStep(cur, prev) == IF prev # None /\ cur > prev THEN cur - prev ELSE 0

\* The reading before the one in bucket b: in the window, or a little before it.
Before(b, l, w) ==
    LET S == {c \in Min(w) - Lookback .. b - 1 : <<c, l>> \in DOMAIN reading}
    IN  IF S = {} THEN None ELSE reading[<<Max(S), l>>]

\* The activity of a label in a bucket; where there is a gauge it goes by that.
Weight(b, l, w) ==
    LET x == <<b, l>> IN
    CASE x \in DOMAIN gauge -> gauge[x]
      [] x \notin DOMAIN gauge /\ x \in DOMAIN reading ->
            IF cumulative THEN PosStep(reading[x], Before(b, l, w)) ELSE reading[x]
      [] OTHER -> 0

Distance(b, c) == IF b < c THEN c - b ELSE b - c

\* The buckets whose activity splits bucket b: its own, or that of the nearest ones.
Donors(b, busy) ==
    IF b \in busy THEN {b}
    ELSE {c \in busy : /\ Distance(b, c) <= MaxGap
                       /\ \A d \in busy : Distance(b, c) <= Distance(b, d)}

\* The chart of a window: the share of each label in each bucket with a total, and the
\* labels that are named.  Without any activity to go by it is not shown.
Chart(w) ==
    LET weight == [b \in w |-> [l \in Labels |-> Weight(b, l, w)]]
        busy   == {b \in w : \E l \in Labels : weight[b][l] > 0}
        drawn  == IF cumulative /\ busy = {} THEN {} ELSE {b \in w : total[b] # None}
        mix    == [b \in drawn |-> [l \in Labels |->
                      SumFunction([d \in Donors(b, busy) |-> weight[d][l]])]]
        all    == [b \in drawn |-> SumFunction(mix[b])]
        share  == [b \in drawn |-> [l \in Labels |->
                      IF all[b] = 0 THEN 0 ELSE (Scale * total[b] * mix[b][l]) \div all[b]]]
        work   == [l \in Labels |-> SumFunction([b \in drawn |-> share[b][l]])]
        able   == {l \in IF bymodel THEN Labels ELSE nameable : work[l] > 0}
        size   == IF Cardinality(able) < TopN THEN Cardinality(able) ELSE TopN
    IN [weight |-> weight, busy |-> busy, drawn |-> drawn, share |-> share, work |-> work,
        able |-> able,
        named |-> CHOOSE N \in kSubset(size, able) :
                     \A l \in N, m \in able \ N : work[l] >= work[m]]

\* What "Other" shows in a bucket.
Other(chart, b) ==
    LET left == Scale * total[b] - SumFunctionOnSet(chart.share[b], chart.named)
    IN  IF left < 0 THEN 0 ELSE left

-----------------------------------------------------------------------------
Windows == {w \in {f .. t : f, t \in Bucket} : w # {}}

TypeOK == /\ DOMAIN reading \cup DOMAIN gauge \subseteq Bucket \X Labels
          /\ nameable \subseteq Labels /\ (gauge = << >> \/ bymodel)

\* The bands of a bucket add up to the total that was measured, whatever is folded or
\* may not be named (db.py:1175-1177).
HeightIsTotal(c) ==
    \A b \in c.drawn :
        Other(c, b) + SumFunctionOnSet(c.share[b], c.named) = Scale * total[b]

\* Each label that is named has a band somewhere, and none that did more of the work,
\* and may be named, is left to "Other" (db.py:1308-1316).
NamedDidTheWork(c) ==
    \A l \in c.named : /\ \E b \in c.drawn : c.share[b][l] > 0
                       /\ \A m \in c.able \ c.named :
                             SumFunction([b \in c.drawn |-> c.share[b][m]])
                                 <= SumFunction([b \in c.drawn |-> c.share[b][l]])

\* No band without work: a label has a share of a bucket only if it was active in it,
\* or if nobody was, no more than the gap away, nearer than or as near as any other
\* (db.py:1171-1174, 1182-1186).
NoPhantoms(c) ==
    \A b \in c.drawn, l \in Labels : c.share[b][l] > 0 =>
        \E d \in c.busy :
            /\ c.weight[d][l] > 0 /\ Distance(b, d) <= MaxGap
            /\ \A e \in c.busy : Distance(b, d) <= Distance(b, e)

\* A model whose requests run while there is load is given a part of it, however long
\* they have been running (db.py:1161-1167).
RunningIsShown(c) ==
    \A x \in DOMAIN gauge :
        gauge[x] > 0 /\ x[1] \in c.drawn /\ total[x[1]] > 0 => c.share[x[1]][x[2]] > 0

\* The chart of each window.
WorkIsTrue ==
    \A w \in Windows : LET c == Chart(w) IN
        HeightIsTotal(c) /\ NamedDidTheWork(c) /\ NoPhantoms(c) /\ RunningIsShown(c)

\* The same activity is split alike at every zoom, unless what came before it lies
\* further back than one looks (db.py:946-947).
ZoomKeepsSplit ==
    \A w \in Windows : LET c == Chart(w) IN
        \A v \in {v \in Windows : v \subseteq w /\ Min(v) > Min(w)} : LET z == Chart(v) IN
            \A b \in v \cap c.busy \cap c.drawn, l \in Labels :
                (\A x \in DOMAIN reading : x[1] >= Min(v) - Lookback) =>
                    b \in z.drawn /\ z.share[b][l] = c.share[b][l]
=============================================================================
