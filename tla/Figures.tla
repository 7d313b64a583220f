------------------------------- MODULE Figures -------------------------------
(***************************************************************************)
(* The figures of the pages that are worked out from what was recorded:    *)
(* Charts, Counters and Attribution.  They share no state, so no           *)
(* interleaving of one with another tells anything: a behaviour picks a    *)
(* part and runs it alone.                                                 *)
(***************************************************************************)
EXTENDS Integers, FiniteSets

CONSTANTS
    Labels, TopN, MaxRows,
    Models, External, Excluded, Barred, Prices, LastUse, MonthLen, Short, Months, Anchors, \* Charts
    LastTick, MaxMade, Rebases, LookbackTicks, BucketLen,                          \* Counters
    LastBucket, Loads, MaxGap, Lookback, Scale                                     \* Attribution

VARIABLES
    part,
    used, reported, pin, override, owned, hide,
    tick, counter, sample, made, rebased,
    load, reading, gauge, cumulative, bymodel, nameable

Chart == INSTANCE Charts WITH LastDay <- LastUse
Count == INSTANCE Counters WITH Lookback <- LookbackTicks
Work  == INSTANCE Attribution WITH Totals <- Loads, total <- load

\* No model and no key is called what the charts call the rest, prices are not
\* negative, some key is not excluded, and the page is panned to days of the calendar.
ASSUME ChartsAssumption ==
    /\ IsFiniteSet(Labels) /\ "Other" \notin Labels \cup DOMAIN Models
    /\ Models \in [DOMAIN Models -> Nat] /\ Prices \subseteq Nat
    /\ ~(Labels \subseteq Excluded)
    /\ LastUse \in Nat /\ MonthLen \in Nat \ {0} /\ Short \in Nat /\ Months \in Nat
    /\ TopN \in Nat /\ MaxRows \in Nat /\ Anchors \subseteq Chart!Day

ASSUME CountersAssumption ==
    /\ LastTick \in Nat /\ MaxMade \in Nat /\ Rebases \subseteq Nat
    /\ LookbackTicks \in Nat /\ BucketLen \in Nat \ {0}

\* The shares are fine enough to show the least part of what a bucket can hold.
ASSUME WorkAssumption ==
    /\ LastBucket \in Nat /\ Loads \subseteq [0..LastBucket -> Nat \cup {Work!None}]
    /\ MaxGap \in Nat /\ Lookback \in Nat /\ Scale \in Nat /\ Scale >= 2 * Cardinality(Labels)

charts   == <<used, reported, pin, override, owned, hide>>
counters == <<tick, counter, sample, made, rebased>>
work     == <<load, reading, gauge, cumulative, bymodel, nameable>>
figures  == <<part, charts, counters, work>>

FigureInit == Chart!Init /\ Count!Init /\ Work!Init

FigureNext ==
    /\ part' = part
    /\ \/ part = "charts" /\ Chart!Next /\ UNCHANGED <<counters, work>>
       \/ part = "counters" /\ Count!Next /\ UNCHANGED <<charts, work>>
       \/ part = "work" /\ Work!Next /\ UNCHANGED <<charts, counters>>

FigureSpec == FigureInit /\ [][FigureNext]_figures

-----------------------------------------------------------------------------
\* Charts: every chart that shows a window shows all its money, once; two charts of a
\* window differ by what one leaves out and by LiteLLM's cash against the price, and by
\* nothing else; hiding keys hides no money and not every key (app.py:3256-3305,
\* 3330-3377, 3544-3548; litellm.py:797-827; db.py:809-817, 2313-2434).
ChartsAgree ==
    part = "charts" =>
        /\ Chart!TypeOK /\ Chart!NothingOffTheChart /\ Chart!TwoChartsAgree /\ Chart!PointsAddUp
        /\ Chart!KeyMoneyKept /\ Chart!LinesEndAtBars /\ Chart!SomeKeyNamed

\* What is added up over time is what was requested, once.
\* Counters: the bar of a window counts the activity up to its last sample and no
\* re-base, the bars of two windows that meet add up to that of both, and no line
\* climbs above the bar of its window (dbutil.py:76-88; db.py:934-1000, 1067-1078).
\* Attribution: the bands under a total add up to it, those named did most of the work
\* and none is without, and a zoom splits it alike (db.py:946-947, 1161-1186).
TotalsTrue ==
    /\ part = "counters" =>
        Count!TypeOK /\ Count!DeltaIsActivity /\ Count!ZoomAttributes /\ Count!LinesBelowBar
    /\ part = "work" => Work!TypeOK /\ Work!WorkIsTrue /\ Work!ZoomKeepsSplit
=============================================================================
