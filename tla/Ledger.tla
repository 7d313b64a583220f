------------------------------- MODULE Ledger -------------------------------
(***************************************************************************)
(* The history of what was spent (db.py:2270-2523; app.py:3653-3822,       *)
(* 4290-4361; litellm.py:1233-1270, 1752-1905): a table of days, which     *)
(* outlives the days LiteLLM still reports, and a table of what each day   *)
(* cost per model and key, folded from the request logs.                   *)
(*                                                                         *)
(* Two actors write each table, and await LiteLLM between what they read   *)
(* and what they write: the hourly capture and an open spend page write    *)
(* the days, the heavy poll and the one-time backfill write the rows.  One *)
(* model and one key stand for all; each request costs 1.                  *)
(***************************************************************************)
EXTENDS Integers, FiniteSets, Functions

CONSTANTS Actors,      \* those that act: capture, page, poll, backfill
          LastDay,     \* bound: the days are 0..LastDay
          DayLen,      \* length of a day
          MaxRequests, \* bound: requests of all days
          Live,        \* days back that LiteLLM reports (7 on its free tier)
          Window,      \* LITELLM_SPEND_WINDOW_MIN
          Backfill,    \* SPEND_MU_BACKFILL_DAYS
          Retention    \* SPEND_DAILY_RETENTION_DAYS, SPEND_MU_RETENTION_DAYS

ASSUME LedgerAssumption ==
    /\ LastDay \in Nat /\ DayLen \in Nat \ {0} /\ MaxRequests \in Nat
    /\ Live \in Nat /\ Window \in Nat /\ Backfill \in Nat /\ Retention \in Nat

VARIABLES
    now,
    truth,  \* requests of each day, as LiteLLM has logged them
    days,   \* the table spend_daily
    rows,   \* the table spend_model_user_daily
    seeded, \* the marker spend_mu_backfill
    pull,   \* what each actor has read and not yet written
    \* History, for each table: days last written from a pull that began after
    \* they had ended.
    final

ledgerVars == <<now, truth, days, rows, seeded, pull, final>>

Day == 0..LastDay
DailyActors == Actors \cap {"capture", "page"}
RowActors   == Actors \cap {"poll", "backfill"}

Nothing == [at |-> -1, usage |-> << >>, cost |-> << >>]
Empty   == [requests |-> 0, spend |-> 0, cost |-> 0]
Today   == now \div DayLen
End(d)  == (d + 1) * DayLen
Idle(a) == pull[a].at = -1

\* The days among S that saw a request, with their requests so far.
Logged(S) == [d \in {d \in S \cap Day : truth[d] > 0} |-> truth[d]]

LedgerInit ==
    /\ now = 0 /\ truth = [d \in Day |-> 0]
    /\ days = [d \in Day |-> Empty] /\ rows = [d \in Day |-> 0] /\ seeded = FALSE
    /\ pull = [a \in Actors |-> Nothing]
    /\ final = [days |-> {}, rows |-> {}]

-----------------------------------------------------------------------------
Request ==
    /\ FoldFunction(+, 0, truth) < MaxRequests
    /\ truth' = [truth EXCEPT ![Today] = @ + 1]
    /\ UNCHANGED <<now, days, rows, seeded, pull, final>>

Tick == /\ now + 1 < End(LastDay) /\ now' = now + 1
        /\ UNCHANGED <<truth, days, rows, seeded, pull, final>>

\* spend_activity: requests come from one endpoint, spend from another, and one of
\* them may fail.
PullUsage(a, requests, spend) ==
    /\ a \in DailyActors /\ Idle(a) /\ (requests \/ spend)
    /\ LET seen == Logged(Today - Live .. Today) IN
       /\ DOMAIN seen # {}
       /\ pull' = [pull EXCEPT ![a] = [at |-> now, cost |-> << >>,
              usage |-> [d \in DOMAIN seen |->
                            [requests |-> IF requests THEN seen[d] ELSE 0,
                             spend |-> IF spend THEN seen[d] ELSE 0]]]]
    /\ UNCHANGED <<now, truth, days, rows, seeded, final>>

\* per_model_daily_cost; left out where it fails.
PullCost(a) ==
    /\ a \in DailyActors /\ ~Idle(a) /\ pull[a].cost = << >>
    /\ pull' = [pull EXCEPT ![a].cost = Logged(Today - Live .. Today)]
    /\ UNCHANGED <<now, truth, days, rows, seeded, final>>

\* _spend_daily_records: one row per day of the usage, whatever days the cost has.
Record(p, d) == [requests |-> p.usage[d].requests, spend |-> p.usage[d].spend,
                 cost |-> IF d \in DOMAIN p.cost THEN p.cost[d] ELSE 0]

\* Mutant of Upserted: the row replaces the stored one.
UpsertedWhole(old, rec) == rec

\* spend_daily_upsert: usage is replaced, a cost of 0 leaves the stored one.
Upserted(old, rec) == [rec EXCEPT !.cost = IF @ = 0 THEN old.cost ELSE @]

\* spend_daily_range, over all the days of the page.
Stored(d) == days[d]

\* spend_series_handler: what LiteLLM still reports of a day, and what is stored of
\* the others.
Shown(p, d) ==
    LET live == d \in DOMAIN p.usage IN
    [requests |-> IF live THEN p.usage[d].requests ELSE Stored(d).requests,
     spend |-> IF live THEN p.usage[d].spend ELSE Stored(d).spend,
     cost |-> IF d \in DOMAIN p.cost THEN p.cost[d] ELSE IF live THEN 0 ELSE Stored(d).cost]

\* A table remembers which of its days were written whole.
Marked(table, D, at) ==
    [final EXCEPT ![table] = {d \in @ \cup D : d \in D => at >= End(d)}]

\* The end of a capture or of a page: the write, which may fail.
WriteDays(a) ==
    LET p == pull[a] IN
    /\ a \in DailyActors /\ ~Idle(a)
    /\ pull' = [pull EXCEPT ![a] = Nothing]
    /\ \/ /\ days' = [d \in Day |-> IF d \in DOMAIN p.usage
                                    THEN Upserted(days[d], Record(p, d)) ELSE days[d]]
          /\ final' = Marked("days", DOMAIN p.cost \cap DOMAIN p.usage, p.at)
       \/ UNCHANGED <<days, final>>
    /\ UNCHANGED <<now, truth, rows, seeded>>

\* _heavy_sample: the logs from the day the window begins on, so that the end of a
\* day is still read when it has just ended.
StartDay == (now - Window) \div DayLen

\* /spend/logs, all of it folded per day.
PullLogs(a, first) ==
    /\ Idle(a)
    /\ pull' = [pull EXCEPT ![a] = [at |-> now, cost |-> << >>, usage |-> Logged(first .. Today)]]

Poll == /\ "poll" \in Actors /\ PullLogs("poll", StartDay) /\ UNCHANGED <<now, truth, days, rows, seeded, final>>

\* _spend_mu_backfill_once: after a start, unless the marker is set.
Seed == /\ "backfill" \in Actors /\ ~seeded /\ PullLogs("backfill", Today - Backfill)
        /\ UNCHANGED <<now, truth, days, rows, seeded, final>>

\* spend_model_user_upsert: the fold is of the whole day, so it replaces.
Replaced(old, new) == new

\* The write, which may fail; the backfill sets its marker either way.
WriteRows(a) ==
    LET p == pull[a] IN
    /\ a \in RowActors /\ ~Idle(a)
    /\ pull' = [pull EXCEPT ![a] = Nothing]
    /\ \/ /\ rows' = [d \in Day |-> IF d \in DOMAIN p.usage THEN Replaced(rows[d], p.usage[d])
                                    ELSE rows[d]]
          /\ final' = Marked("rows", {d \in Day : d \in DOMAIN p.usage \/
                                         (a = "poll" /\ p.at \in End(d) .. End(d) + Window - 1)},
                             p.at)
       \/ UNCHANGED <<rows, final>>
    /\ seeded' \in IF a = "backfill" THEN BOOLEAN ELSE {seeded}
    /\ UNCHANGED <<now, truth, days>>

\* A call that fails, a capture that takes more than 30 s, a page that is closed.
Abandon(a) ==
    /\ ~Idle(a) /\ pull' = [pull EXCEPT ![a] = Nothing]
    /\ seeded' = (seeded \/ a = "backfill")
    /\ UNCHANGED <<now, truth, days, rows, final>>

Kept == {d \in Day : d >= Today - Retention}

\* prune_spend_daily and prune_spend_model_user, every hour.
Prune ==
    /\ days' = [d \in Day |-> IF d \in Kept THEN days[d] ELSE Empty]
    /\ rows' = [d \in Day |-> IF d \in Kept THEN rows[d] ELSE 0]
    /\ final' = [t \in DOMAIN final |-> final[t] \cap Kept]
    /\ UNCHANGED <<now, truth, seeded, pull>>

LedgerRestart ==
    /\ pull' = [a \in Actors |-> Nothing]
    /\ UNCHANGED <<now, truth, days, rows, seeded, final>>

LedgerNext ==
    \/ Request \/ Tick \/ Poll \/ Seed \/ Prune \/ LedgerRestart
    \/ \E a \in Actors : \/ \E requests, spend \in BOOLEAN : PullUsage(a, requests, spend)
                         \/ PullCost(a) \/ WriteDays(a) \/ WriteRows(a) \/ Abandon(a)

LedgerSpec == LedgerInit /\ [][LedgerNext]_ledgerVars

-----------------------------------------------------------------------------
LedgerTypeOK ==
    /\ now \in 0 .. End(LastDay) - 1 /\ truth \in [Day -> Nat]
    /\ rows \in [Day -> Nat] /\ seeded \in BOOLEAN
    /\ \A d \in Day : DOMAIN days[d] = DOMAIN Empty
    /\ \A a \in Actors : pull[a].at \in -1..now

\* Re-reading a day that grew, from two actors and over restarts, counts no request
\* twice (db.py:2271-2274, 2457-2460).
NothingTwice ==
    \A d \in Day : /\ rows[d] <= truth[d]
                   /\ \A c \in DOMAIN Empty : days[d][c] <= truth[d]

\* The page lays what it pulled over what is stored: no request is counted twice, and
\* no day that is complete falls out, however long ago it was (app.py:3724-3733,
\* 3764-3767) -- but for the one day that leaves the days LiteLLM reports while the
\* page is between its two calls: it is live to the first, and without cost.
PageWhole ==
    \A a \in DailyActors : LET p == pull[a] IN
        ~Idle(a) => \A d \in Day :
            /\ \A c \in DOMAIN Empty : Shown(p, d)[c] <= truth[d]
            /\ (/\ d \in final.days /\ p.at >= End(d) /\ p.cost # << >>
                /\ d \in DOMAIN p.usage => d \in DOMAIN p.cost)
               => Shown(p, d).cost = truth[d]

\* A cost that was stored is not blanked by a pull without one; only the prune drops
\* it, after the retention (db.py:2471-2480).
CostKept ==
    [][\A d \in Day : days[d].cost > 0 /\ d >= Today - Retention => days[d].cost' > 0]_ledgerVars

\* A day that a poll read in the window after its end is complete, and so is one
\* whose cost was captured then, until an actor that had read it before its end
\* writes (litellm.py:1758, app.py:3673-3677).
EndedDaysComplete ==
    /\ \A d \in final.rows : rows[d] = truth[d]
    /\ \A d \in final.days : days[d].cost = truth[d]

\* The two tables tell what was requested, whoever writes them and in whatever order,
\* and so does the page.
LedgerTrue ==
    /\ [](LedgerTypeOK /\ NothingTwice /\ PageWhole /\ EndedDaysComplete)
    /\ CostKept

\* What the comment says of the other columns: "the always-present usage pull"
\* (db.py:2473-2474).  They come from two endpoints and either may be missing.
UsageKept ==
    [][\A d \in Day : d >= Today - Retention =>
        /\ days[d].requests > 0 => days[d].requests' > 0
        /\ days[d].spend > 0 => days[d].spend' > 0]_ledgerVars
=============================================================================
