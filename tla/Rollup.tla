------------------------------- MODULE Rollup -------------------------------
(***************************************************************************)
(* Tiered storage of the metric series (db.insert_metrics, rollup,         *)
(* prune_metrics) under the sampling loop that drives it (app.py:485-555): *)
(* every tick stores a raw row, more than RollupEvery later the raw rows   *)
(* are folded into buckets of every tier, more than PruneEvery later the   *)
(* old rows and buckets are deleted.  A chart reads the table that         *)
(* _pick_tier chooses for its window.                                      *)
(*                                                                         *)
(* A bucket holds an average; which rows it averages is what matters, so   *)
(* a bucket is modelled as the set of its rows.  key_series, model_series, *)
(* proc_series and cpu_core_series are folded by the same statement, per   *)
(* label; one series stands for them all.  Time is scaled: see the MC      *)
(* configurations.                                                         *)
(***************************************************************************)
EXTENDS Integers

CONSTANTS
    Sizes,        \* bucket sizes of the tiers: 60 s and 3600 s
    Grace,        \* _ROLLUP_GRACE, two buckets of the coarsest tier
    RawKeep,      \* ROLLUP_RAW_HOURS
    Keep,         \* per size: ROLLUP_MIN_DAYS, ROLLUP_HOUR_DAYS
    RollupEvery,  \* 60 s
    PruneEvery,   \* 3600 s
    Start,        \* the clock when the process first starts
    Gaps,         \* how long the process may be down when it restarts
    Setbacks,     \* how far the wall clock may be set back
    MaxGap, MaxBack, \* the longest and the farthest of these
    Spans,        \* the lengths of the windows that are charted
    RawSpan,      \* the longest window read from the raw rows: 1 h
    FineSpan,     \* the longest one read from the finest tier: 24 h
    Pans,         \* how far a chart is panned into the past
    \* Bounds of the model:
    MaxTime, MaxRestarts, MaxFailures, MaxSetbacks

ASSUME RollupAssumption ==
    /\ Sizes \subseteq Nat \ {0}
    /\ Grace \in Nat /\ RawKeep \in Nat /\ Keep \in [Sizes -> Nat]
    /\ RollupEvery \in Nat /\ PruneEvery \in Nat
    /\ Start \in Nat /\ Start > RollupEvery /\ Start > PruneEvery
    /\ MaxGap \in Nat /\ Gaps \subseteq 0..MaxGap
    /\ MaxBack \in Nat /\ Setbacks \subseteq 0..MaxBack
    /\ Spans \subseteq Nat /\ RawSpan \in Nat /\ FineSpan \in Nat /\ Pans \subseteq Nat
    /\ MaxTime \in Nat /\ MaxRestarts \in Nat /\ MaxFailures \in Nat /\ MaxSetbacks \in Nat

\* There is a finest and a coarsest tier.
ASSUME TiersAssumption ==
    /\ \E s \in Sizes : \A t \in Sizes : s <= t
    /\ \E s \in Sizes : \A t \in Sizes : s >= t

\* The grace spans the open and the previous bucket of every tier (db.py:1944), and the
\* clock is not set back by more than it in all.
ASSUME GraceAssumption ==
    /\ \A s \in Sizes : 2 * s <= Grace
    /\ MaxSetbacks * MaxBack <= Grace

\* The raw rows outlive the longest time without a rollup: what failed, the time the
\* process was down, what the clock lost and one interval; and they outlive two buckets
\* by what the clock lost.
ASSUME RetentionAssumption ==
    /\ MaxFailures * (RollupEvery + 1) + MaxRestarts * (MaxGap + 1) + MaxSetbacks * MaxBack
         + RollupEvery <= RawKeep
    /\ \A s \in Sizes : MaxSetbacks * MaxBack + 2 * s <= RawKeep + 1

VARIABLES
    now,         \* time.time()
    pc,          \* where the iteration of the sampling loop is
    raw,         \* the rows of the raw table
    tier,        \* per size, the buckets of its table and the rows each averages
    hwm,         \* _ROLLUP_HWM, 0 when the process has not rolled up yet
    lastRollup,  \* locals of the loop, 0 when it starts
    lastPrune,
    \* History:
    recorded,    \* every row ever stored
    folded,      \* every row some rollup has put into the tiers
    restarts, failures, setbacks

tables == <<raw, tier>>
loop   == <<pc, hwm, lastRollup, lastPrune>>
counts == <<restarts, failures, setbacks>>
vars   == <<now, tables, loop, recorded, folded, counts>>

\* A row is named by its time stamp and by how often the clock was set back.
Row == [ts : Nat, era : Nat]

\* CAST(ts/size AS INT)*size.
BucketOf(r, size) == (r.ts \div size) * size

Init ==
    /\ now = Start /\ pc = "sample"
    /\ raw = {} /\ tier = [s \in Sizes |-> << >>]
    /\ hwm = 0 /\ lastRollup = 0 /\ lastPrune = 0
    /\ recorded = {} /\ folded = {}
    /\ restarts = 0 /\ failures = 0 /\ setbacks = 0

-----------------------------------------------------------------------------
\* The next tick: one raw row per snapshot.
Sample ==
    /\ pc = "sample" /\ now < MaxTime
    /\ now' = now + 1
    /\ LET row == [ts |-> now', era |-> setbacks]
       IN  raw' = raw \cup {row} /\ recorded' = recorded \cup {row}
    /\ pc' = "rollup"
    /\ UNCHANGED <<tier, hwm, lastRollup, lastPrune, folded, counts>>

Lower(a, b) == IF a < b THEN a ELSE b
Upper(a, b) == IF a > b THEN a ELSE b

\* Mutant of LookFrom: the grace is one bucket of the finest tier short.
LookFromShort == IF hwm <= 0 THEN 0 ELSE Upper(0, Lower(hwm, now) - Grace \div 4)

\* Mutant of LookFrom: the first rollup of a process covers new rows only.
LookFromNow == IF hwm <= 0 THEN Upper(0, now - RollupEvery) ELSE Upper(0, Lower(hwm, now) - Grace)

\* Where the incremental scan starts.
LookFrom == IF hwm <= 0 THEN 0 ELSE Upper(0, Lower(hwm, now) - Grace)

\* INSERT OR REPLACE ... SELECT ... WHERE ts >= look_from GROUP BY bucket.
Fold(buckets, size) ==
    LET rows == {r \in raw : r.ts >= LookFrom}
        touched == {BucketOf(r, size) : r \in rows}
    IN  [b \in DOMAIN buckets \cup touched |->
            IF b \in touched THEN {r \in rows : BucketOf(r, size) = b} ELSE buckets[b]]

RollupDue == now - lastRollup > RollupEvery
PruneDue  == now - lastPrune > PruneEvery

\* db.rollup: one transaction; the high-water mark moves only on success.
RollUp ==
    /\ pc = "rollup" /\ RollupDue
    /\ tier' = [s \in Sizes |-> Fold(tier[s], s)]
    /\ folded' = folded \cup {r \in raw : r.ts >= LookFrom}
    /\ hwm' = now /\ lastRollup' = now
    /\ pc' = "prune"
    /\ UNCHANGED <<now, raw, lastPrune, recorded, counts>>

\* Its exception is swallowed: the loop believes it has rolled up.
RollUpFails ==
    /\ pc = "rollup" /\ RollupDue /\ failures < MaxFailures
    /\ failures' = failures + 1
    /\ lastRollup' = now
    /\ pc' = "prune"
    /\ UNCHANGED <<now, tables, hwm, lastPrune, recorded, folded, restarts, setbacks>>

NoRollUp == pc = "rollup" /\ ~RollupDue /\ pc' = "prune"
            /\ UNCHANGED <<now, tables, hwm, lastRollup, lastPrune, recorded, folded, counts>>

\* db.prune_metrics.
Prune ==
    /\ pc = "prune" /\ PruneDue
    /\ raw' = {r \in raw : r.ts >= now - RawKeep}
    /\ tier' = [s \in Sizes |->
                  [b \in {x \in DOMAIN tier[s] : x >= now - Keep[s]} |-> tier[s][b]]]
    /\ lastPrune' = now
    /\ pc' = "sample"
    /\ UNCHANGED <<now, hwm, lastRollup, recorded, folded, counts>>

NoPrune == pc = "prune" /\ ~PruneDue /\ pc' = "sample"
           /\ UNCHANGED <<now, tables, hwm, lastRollup, lastPrune, recorded, folded, counts>>

\* The process stops anywhere, is down for a while and starts again; the tables
\* are on disk, the rest is forgotten.
Restart(gap) ==
    /\ restarts < MaxRestarts /\ now + gap <= MaxTime
    /\ restarts' = restarts + 1
    /\ now' = now + gap
    /\ pc' = "sample" /\ hwm' = 0 /\ lastRollup' = 0 /\ lastPrune' = 0
    /\ UNCHANGED <<tables, recorded, folded, failures, setbacks>>

\* NTP or an administrator sets the wall clock back.
SetBack(d) ==
    /\ setbacks < MaxSetbacks /\ pc = "sample" /\ now - d >= Start
    /\ setbacks' = setbacks + 1
    /\ now' = now - d
    /\ UNCHANGED <<tables, loop, recorded, folded, restarts, failures>>

\* The bound on time is reached.
Stop == pc = "sample" /\ now = MaxTime /\ UNCHANGED vars

Next ==
    \/ Sample \/ RollUp \/ RollUpFails \/ NoRollUp \/ Prune \/ NoPrune \/ Stop
    \/ \E gap \in Gaps : Restart(gap)
    \/ \E d \in Setbacks : SetBack(d)

Spec == Init /\ [][Next]_vars

-----------------------------------------------------------------------------
(* The reads of the charts.                                                *)

Finest   == CHOOSE s \in Sizes : \A t \in Sizes : s <= t
Coarsest == CHOOSE s \in Sizes : \A t \in Sizes : s >= t

\* The oldest instant that a window reaches, as an age.
Reach(secs, end) == now - (end - secs)

\* _pick_tier: the bucket size of the table that is read, 0 for the raw rows.
PickTier(secs, end) ==
    IF secs <= RawSpan /\ Reach(secs, end) <= RawKeep THEN 0
    ELSE IF secs <= FineSpan /\ Reach(secs, end) <= Keep[Finest] THEN Finest
    ELSE Coarsest

\* series: the time stamps of what the picked table holds of the window.
Series(secs, end) ==
    LET size == PickTier(secs, end) IN
    {t \in (IF size = 0 THEN {r.ts : r \in raw} ELSE DOMAIN tier[size]) : t \in end - secs .. end}

-----------------------------------------------------------------------------
TypeOK ==
    /\ now \in Nat /\ pc \in {"sample", "rollup", "prune"}
    /\ raw \subseteq recorded /\ folded \subseteq recorded /\ recorded \subseteq Row
    /\ \A s \in Sizes : \A b \in DOMAIN tier[s] : b % s = 0 /\ tier[s][b] \subseteq folded
    /\ hwm \in Nat /\ lastRollup \in Nat /\ lastPrune \in Nat
    /\ restarts \in 0..MaxRestarts /\ failures \in 0..MaxFailures /\ setbacks \in 0..MaxSetbacks

InBucket(b, s) == {r \in recorded : BucketOf(r, s) = b}
OpenAndPrevious(s) == {((now - age) \div s) * s : age \in {0, s}}

\* A rollup leaves the open and the previous bucket of every tier averaging every
\* row ever stored for them (db.py:1943-1944), whatever failed or restarted.
RecentBucketsExact ==
    [][RollUp => \A s \in Sizes : \A b \in OpenAndPrevious(s) :
        InBucket(b, s) # {} => b \in DOMAIN tier'[s] /\ tier'[s][b] = InBucket(b, s)]_vars

\* A rollup leaves no raw row unfolded (db.py:1950-1963).
NothingStranded == [][RollUp => raw \subseteq folded']_vars

\* No row is deleted from the raw table before it reached the tiers
\* (db.py:1950-1952).
FoldedBeforePruned == [][raw \ raw' \subseteq folded]_vars

\* A chart finds every row of its window in the table it picks, as far back as any
\* table keeps it: a short window panned into the past is not blank (db.py:575-593).
NothingBlank ==
    setbacks = 0 => \A secs \in Spans, end \in {now - p : p \in Pans} :
        LET size == PickTier(secs, end)
            stamps == IF size = 0 THEN {r.ts : r \in recorded}
                      ELSE {b \in {BucketOf(r, size) : r \in folded} : b >= now - Keep[size]}
        IN  {t \in stamps : t \in end - secs .. end} \subseteq Series(secs, end)

\* No row that was stored is lost to the tiers, nor to the charts that read them
\* (db.py:575-626, 1943-1963).
NoRowLost == [](TypeOK /\ NothingBlank) /\ NothingStranded /\ FoldedBeforePruned

\* A stored bucket keeps the average of all its rows: "the rest are already
\* stored" (db.py:1953-1954).
StoredBucketsKeep ==
    [][\A s \in Sizes : \A b \in DOMAIN tier[s] :
        b \in DOMAIN tier'[s] => tier[s][b] \subseteq tier'[s][b]]_vars
=============================================================================
