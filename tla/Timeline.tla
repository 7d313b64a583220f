------------------------------ MODULE Timeline ------------------------------
(***************************************************************************)
(* The status timeline of one backend: app._track_events writes an event   *)
(* when the backend is first seen, changes, or has not been written for    *)
(* STATE_HEARTBEAT_S; db.prune_metrics drops old events; db.uptime and     *)
(* db.status_segments read the past back from what is stored.  One unit of *)
(* time is one tick of the sampling loop.                                  *)
(***************************************************************************)
EXTENDS Integers, Sequences, FiniteSets, SequencesExt

CONSTANTS
    Heartbeat,   \* STATE_HEARTBEAT_S
    Retention,   \* ROLLUP_HOUR_DAYS
    Gaps,        \* how long the process may be down when it restarts
    MaxTime, MaxFailures, MaxRestarts  \* bounds of the model

ASSUME TimelineAssumption ==
    /\ Heartbeat \in Nat \ {0} /\ Retention \in Nat
    /\ Gaps \subseteq Nat /\ MaxTime \in Nat /\ MaxFailures \in Nat /\ MaxRestarts \in Nat

VARIABLES
    now,
    state,    \* _backend_state: "up", "down" or "unknown" when there is no entry
    stamp,    \* _backend_state_ts
    events,   \* the events table, in the order of its rows
    seen,     \* History: what every tick saw; "none" is unconfigured or starting,
              \* "off" a tick the process did not live to make
    failed,   \* History: when an event was last lost, 0 if never
    failures, restarts

laneVars == <<now, state, stamp, events, seen, failed, failures, restarts>>

LaneInit ==
    /\ now = 0 /\ state = "unknown" /\ stamp = 0 /\ events = << >> /\ seen = << >>
    /\ failed = 0 /\ failures = 0 /\ restarts = 0

\* Neither the note "unconfigured" nor the sentinel "starting".
Configured(v) == v # "none"

\* Mutant of Noteworthy: a stable backend is never written again.
NoteworthyChange(v, ts) == v # state

\* First sight, heartbeat or change.
Noteworthy(v, ts) == v # state \/ ts - stamp >= Heartbeat

\* _track_events: the remembered state is set first, the write is best effort.
Track(v, stored) ==
    /\ now < MaxTime /\ now' = now + 1
    /\ seen' = Append(seen, v)
    /\ LET writes == Configured(v) /\ Noteworthy(v, now')
       IN  /\ state' = IF writes THEN v ELSE state
           /\ stamp' = IF writes THEN now' ELSE stamp
           /\ events' = IF writes /\ stored THEN Append(events, [ts |-> now', up |-> v]) ELSE events
           /\ failed' = IF writes /\ ~stored THEN now' ELSE failed
           /\ failures' = IF writes /\ ~stored THEN failures + 1 ELSE failures
           /\ failures' <= MaxFailures
    /\ UNCHANGED restarts

\* Old events go, the newest row stays whatever its age.  The rows are in the order of
\* their stamps, so what stays is a tail of them.
Prune ==
    /\ \E first \in DOMAIN events :
          LET kept(i) == events[i].ts >= now - Retention \/ i = Len(events)
          IN  /\ kept(first) /\ \A i \in 1..(first - 1) : ~kept(i)
              /\ events' = SubSeq(events, first, Len(events))
    /\ UNCHANGED <<now, state, stamp, seen, failed, failures, restarts>>

\* The process is down for a while; what it remembered is gone.
Restart(gap) ==
    /\ restarts < MaxRestarts /\ now + gap <= MaxTime
    /\ restarts' = restarts + 1 /\ now' = now + gap
    /\ seen' = seen \o [i \in 1..gap |-> "off"]
    /\ state' = "unknown" /\ stamp' = 0
    /\ UNCHANGED <<events, failed, failures>>

Stop == now = MaxTime /\ UNCHANGED laneVars

LaneNext ==
    \/ \E v \in {"up", "down", "none"}, stored \in BOOLEAN : Track(v, stored)
    \/ Prune \/ Stop
    \/ \E gap \in Gaps : Restart(gap)

LaneSpec == LaneInit /\ [][LaneNext]_laneVars

-----------------------------------------------------------------------------
Before(start) == {i \in DOMAIN events : events[i].ts < start}

\* Mutant of StateBefore: the oldest row is fetched.
StateBeforeOldest(start) ==
    IF Before(start) = {} THEN "unknown" ELSE events[Min(Before(start))].up

\* The newest event before the window decides its first state.
StateBefore(start) ==
    IF Before(start) = {} THEN "unknown" ELSE events[Max(Before(start))].up

\* The rows of a window, read in the order of the table: what the first i of them make
\* of an accumulator.
Fold(step(_, _), first, start, end) ==
    LET acc[i \in 0..Len(events)] ==
            IF i = 0 THEN first
            ELSE IF events[i].ts >= start /\ events[i].ts <= end THEN step(acc[i - 1], events[i])
            ELSE acc[i - 1]
    IN  acc

\* _emit: a run that goes on is extended.
Emit(segs, from, to, up) ==
    IF segs # << >> /\ Last(segs).up = up /\ Last(segs).to = from
    THEN [segs EXCEPT ![Len(segs)].to = to]
    ELSE Append(segs, [from |-> from, to |-> to, up |-> up])

\* The time from the cursor to ts was spent in acc.state.
Advance(acc, ts) ==
    IF ts > acc.cursor
    THEN LET lapse == ts - acc.cursor
         IN  [acc EXCEPT !.segs = Emit(acc.segs, acc.cursor, ts, acc.state),
                         !.known = @ + (IF acc.state = "unknown" THEN 0 ELSE lapse),
                         !.upTime = @ + (IF acc.state = "up" THEN lapse ELSE 0)]
    ELSE acc

\* status_segments, of one backend.
LaneFirst(start) == [segs |-> << >>, known |-> 0, upTime |-> 0,
                     state |-> StateBefore(start), cursor |-> start]
LaneStep(acc, e) == [Advance(acc, e.ts) EXCEPT !.state = e.up, !.cursor = e.ts]

StatusSegments(start, end) ==
    Advance(Fold(LaneStep, LaneFirst(start), start, end)[Len(events)], end)

\* uptime, over a window that ends now: the same integration, without the runs,
\* and every row that says "down" counted as an outage.
Spent(acc, ts) ==
    [acc EXCEPT !.known = @ + (IF acc.state = "unknown" THEN 0 ELSE ts - acc.cursor),
                !.upTime = @ + (IF acc.state = "up" THEN ts - acc.cursor ELSE 0)]
UptimeFirst(start) == [known |-> 0, upTime |-> 0, outages |-> 0,
                       state |-> StateBefore(start), cursor |-> start]
UptimeStep(acc, e) == [Spent(acc, e.ts) EXCEPT !.outages = @ + (IF e.up = "down" THEN 1 ELSE 0),
                                               !.state = e.up, !.cursor = e.ts]

Uptime(secs) ==
    Spent(Fold(UptimeStep, UptimeFirst(now - secs), now - secs, now)[Len(events)], now)

-----------------------------------------------------------------------------
Windows == {w \in (0..now) \X (0..now) : w[1] < w[2]}

\* Segments cover the window from end to end, each where the last one stopped.
Tile(segs, start, end) ==
    /\ segs # << >> /\ segs[1].from = start /\ segs[Len(segs)].to = end
    /\ \A i \in DOMAIN segs : segs[i].from < segs[i].to
    /\ \A i \in 1..(Len(segs) - 1) : segs[i].to = segs[i + 1].from

Shown(segs, t) == (CHOOSE s \in ToSet(segs) : s.from <= t /\ t < s.to).up

\* What the loop last saw of the backend, up to t.
LastSeen(t) ==
    LET told == {i \in 1..t : seen[i] \in {"up", "down"}}
    IN  IF told = {} THEN "unknown" ELSE seen[Max(told)]

LaneTypeOK ==
    /\ now \in 0..MaxTime /\ state \in {"up", "down", "unknown"}
    /\ stamp \in 0..now /\ failed \in 0..now
    /\ seen \in Seq({"up", "down", "none", "off"}) /\ Len(seen) = now
    /\ \A i \in DOMAIN events : events[i].ts \in 1..now /\ events[i].up = seen[events[i].ts]
    /\ \A i \in 1..(Len(events) - 1) : events[i].ts < events[i + 1].ts
    /\ failures \in 0..MaxFailures /\ restarts \in 0..MaxRestarts

\* The lane has no hole and no needless cut, and its percentage is the one
\* db.uptime reports (db.py:1803-1833, 1735-1762).
SegmentsAddUp ==
    \A w \in Windows :
        LET r == StatusSegments(w[1], w[2])
        IN  /\ Tile(r.segs, w[1], w[2])
            /\ \A i \in 1..(Len(r.segs) - 1) : r.segs[i].up # r.segs[i + 1].up
            /\ w[2] = now => LET u == Uptime(now - w[1])
                             IN  u.known = r.known /\ u.upTime = r.upTime

\* Nothing is drawn that was not seen: unless an event was lost, every instant
\* shows what the loop last saw of the backend, or unknown (db.py:1795-1800).
NothingInvented ==
    failed = 0 =>
        \A w \in Windows : \A t \in w[1]..(w[2] - 1) :
            Shown(StatusSegments(w[1], w[2]).segs, t) \in {LastSeen(t), "unknown"}

\* A backend watched for a whole heartbeat inside the retention is never drawn as
\* unknown, however stable it is and whatever was pruned (app.py:52-57,
\* db.py:2016-2021).
WatchedIsKnown ==
    failed = 0 =>
        \A w \in Windows : \A t \in w[1]..(w[2] - 1) :
            /\ t >= Heartbeat /\ t - Heartbeat + 1 >= now - Retention
            /\ \A i \in (t - Heartbeat + 1)..t : seen[i] \in {"up", "down"}
            => Shown(StatusSegments(w[1], w[2]).segs, t) # "unknown"

\* However long ago it was seen, the newest event still tells what was last seen of the
\* backend, for the windows to come: "a stable backend may have only that one"
\* (db.py:2016-2021).
NewestSurvives ==
    failed = 0 /\ LastSeen(now) # "unknown" => events # << >> /\ Last(events).up = LastSeen(now)

\* The lane covers its window, adds up to its uptime, and tells what was seen, neither
\* more nor less.
LaneIsTrue == LaneTypeOK /\ SegmentsAddUp /\ NothingInvented /\ WatchedIsKnown /\ NewestSurvives

\* A lost event is mended: once the backend was seen a heartbeat after it, the
\* newest event is the state it is in (app.py:349-359).
LostEventIsMended ==
    (failed > 0 /\ now >= failed + Heartbeat /\ seen[now] \in {"up", "down"})
        => events # << >> /\ Last(events).up = seen[now]

\* The outages of db.uptime are transitions: "derived from transition events"
\* (db.py:1713).  An outage longer than a heartbeat is counted again and again.
OutagesAreTransitions ==
    \A secs \in 1..now :
        LET fell == {t \in 1..now : seen[t] = "down" /\ (t = 1 \/ LastSeen(t - 1) # "down")}
        IN  restarts = 0 => Uptime(secs).outages <= Cardinality(fell)
=============================================================================
