------------------------------ MODULE SiteLane ------------------------------
(***************************************************************************)
(* The lane of the monitoring site itself, on the status timeline: what    *)
(* db.self_uptime_segments infers of the process from the rows that it     *)
(* left in the tables of Rollup.  Rows close to each other are one run,    *)
(* the time between two runs the process was down.                         *)
(***************************************************************************)
EXTENDS Rollup, Sequences

CONSTANTS
    Factor,     \* gap_factor: so many intervals without a row are a gap
    Floor,      \* no gap is shorter: 15 s
    Tolerance,  \* how far beyond their retention the raw rows are read: 60 s
    LongSpan    \* the longest window read from the finest tier: 30 d

ASSUME SiteAssumption ==
    Factor \in Nat \ {0} /\ Floor \in Nat /\ Tolerance \in Nat /\ LongSpan \in Nat

\* The bucket size of the table that is read, 0 for the raw rows: by the age of the
\* start of the window.
SiteTable(secs, end) ==
    IF Reach(secs, end) <= RawKeep + Tolerance THEN 0
    ELSE IF Reach(secs, end) <= Keep[Finest] /\ secs <= LongSpan THEN Finest
    ELSE Coarsest

\* Raw rows are a tick apart.
Thresh(size) == Upper(Floor, Factor * (IF size = 0 THEN 1 ELSE size))

\* The stamps of a table.
Stamps(size) == IF size = 0 THEN {r.ts : r \in raw} ELSE DOMAIN tier[size]

\* Mutant of SiteRows: only the rows of the window itself are read.
SiteRowsInside(size, start, end) == {t \in Stamps(size) : start <= t /\ t <= end}

\* What is read: from a threshold before the window.
SiteRows(size, start, end) == {t \in Stamps(size) : start - Thresh(size) <= t /\ t <= end}

\* A row no further than h from the last run belongs to it.
Join(runs, t, h) ==
    IF runs = << >> \/ t - runs[Len(runs)].to > h
    THEN Append(runs, [from |-> t, to |-> t])
    ELSE [runs EXCEPT ![Len(runs)].to = t]

\* The runs of the rows, which lie within n ticks after lo: up to each of these.
Runs(rows, lo, n, h) ==
    LET runs[i \in 0..n] == IF i = 0 THEN << >>
                            ELSE IF lo + i \in rows THEN Join(runs[i - 1], lo + i, h)
                            ELSE runs[i - 1]
    IN  runs

\* A run, cut to the window, and the gap before it.
Place(acc, run, start, end) ==
    LET a == Upper(run.from, start)
        b == Lower(run.to, end)
        at == Upper(a, acc.cursor)
        gap == IF a > acc.cursor
               THEN <<[from |-> acc.cursor, to |-> a, up |-> "down"]>> ELSE << >>
        up == IF b > at THEN <<[from |-> at, to |-> b, up |-> "up"]>> ELSE << >>
    IN  IF b <= start \/ a >= end THEN acc
        ELSE [segs |-> acc.segs \o gap \o up, cursor |-> Upper(b, at)]

\* The first k runs of the window.
Placed(runs, start, end) ==
    LET acc[k \in 0..Len(runs)] == IF k = 0 THEN [segs |-> << >>, cursor |-> start]
                                   ELSE Place(acc[k - 1], runs[k], start, end)
    IN  acc

\* self_uptime_segments, of the table of that size.  What follows the last run is up if
\* its last row is recent.
SiteSegments(size, start, end) ==
    LET h == Thresh(size)
        rows == SiteRows(size, start, end)
        lo == start - h - 1
        runs == Runs(rows, lo, end - lo, h)[end - lo]
        acc == Placed(runs, start, end)[Len(runs)]
        tail == IF end - runs[Len(runs)].to > h THEN "down" ELSE "up"
    IN  IF rows = {} THEN << >>
        ELSE IF end > acc.cursor
        THEN Append(acc.segs, [from |-> acc.cursor, to |-> end, up |-> tail])
        ELSE acc.segs

-----------------------------------------------------------------------------
\* Segments cover the window from end to end, each where the last one stopped.
Tile(segs, start, end) ==
    /\ segs # << >> /\ segs[1].from = start /\ segs[Len(segs)].to = end
    /\ \A i \in DOMAIN segs : segs[i].from < segs[i].to
    /\ \A i \in 1..(Len(segs) - 1) : segs[i].to = segs[i + 1].from

DrawnUp(segs, t) == \E i \in DOMAIN segs : segs[i].from <= t /\ t < segs[i].to /\ segs[i].up = "up"

\* The stamps of every row that was ever in a table, and how long it keeps them.
Written(size) == IF size = 0 THEN {r.ts : r \in recorded} ELSE {BucketOf(r, size) : r \in folded}
Retained(size) == IF size = 0 THEN RawKeep ELSE Keep[size]

\* t lies between two rows, or between a row and the end of the window, that are no
\* further apart than h.
Bridged(t, stamps, end, h) ==
    \E a \in (t - h + 1)..t : a \in stamps /\ \E b \in (t + 1)..(a + h) : b \in stamps \cup {end}

\* The window ends on the very row that ends a gap: the tail rule paints that gap up
\* (db.py:1928-1936).
EndsGap(size, end) ==
    end \in Stamps(size) /\ \A a \in (end - Thresh(size))..(end - 1) : a \notin Stamps(size)

\* Wherever the window is put and whichever table it is read from, the lane of the site
\* covers it; it is up only between two rows that were written no further apart than
\* the threshold, so that no time the process was down is hidden; and it is up between
\* all such rows, so that no downtime is invented, but where the first of them may be
\* pruned: in the first threshold that the table keeps.  That edge is the gap which the
\* code admits (db.py:1860-1893).
SiteGapsAreReal ==
    \A secs \in Spans, end \in {now - p : p \in Pans} :
        LET size == SiteTable(secs, end)
            start == end - secs
            h == Thresh(size)
            segs == SiteSegments(size, start, end)
            stamps == {t \in Written(size) : t <= end}
        IN  start \in Nat /\ secs > 0 /\ segs # << >> /\ ~EndsGap(size, end) =>
              /\ Tile(segs, start, end)
              /\ \A t \in start..(end - 1) :
                    /\ DrawnUp(segs, t) => Bridged(t, stamps, end, h)
                    /\ setbacks = 0 /\ t - h >= now - Retained(size) /\ Bridged(t, stamps, end, h)
                          => DrawnUp(segs, t)

\* Without that exception: what the docstring says, that a run straddling the start of
\* the window "isn't misread as a fresh start-of-window outage" (db.py:1863-1864).
NoLeadingGap ==
    \A secs \in Spans, end \in {now - p : p \in Pans} :
        LET size == SiteTable(secs, end)
            start == end - secs
            segs == SiteSegments(size, start, end)
            stamps == {t \in Written(size) : t <= end}
        IN  start \in Nat /\ secs > 0 /\ segs # << >> /\ ~EndsGap(size, end) /\ setbacks = 0 =>
              \A t \in start..(end - 1) :
                  Bridged(t, stamps, end, Thresh(size)) => DrawnUp(segs, t)
=============================================================================
