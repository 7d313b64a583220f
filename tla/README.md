# A TLA+ model of the AI monitor

The program under `src/` is one asyncio process that watches a machine which
serves language models: it polls the GPU, LiteLLM, Ollama, llama.cpp, vLLM and
the containers, stores what it sees in SQLite, raises alerts on a webhook, and
shows all of it on an authenticated dashboard. These modules model the parts of
it that decide something from more than one event: what counts as an outage and
who hears of it, what survives in storage, who may log in and what he may reach,
who owns a key, and what a key has cost.

The source is the reference. Line numbers in the modules and in `PROJECT.json`
are those of `src/`; `app.py` is `src/app.py`, `litellm.py` is
`src/collectors/litellm.py`, and so on.

## 1. Inventory

| Component | State | Operations | Correct when |
|---|---|---|---|
| **Collector loops and cache** `app.py:90-151` | `_backend_latest`, one asyncio task per backend, `_GPU_SEM` and the probe threads | poll under `wait_for`, answer, time out, a thread that returns long after | a hung backend is reported and delays nobody; no permit leaks |
| **Sampling loop** `app.py:485-555` | the ring, `_backend_state`, when rollup and prune last ran | every `SAMPLE_INTERVAL`: snapshot, persist, evaluate, notify, track events, roll up, prune | one failing step does not spoil the others |
| **DOWN latch** `alerts.py:341-578` | `_down_streak`, `_up_streak`, `_down_hist`, `_firing`, `_down_reason`, `_held`, `_cancelled` | `evaluate()`, once per tick | armed on evidence, released by recovery, an absent key has one reason |
| **Notifier** `alerts.py:581-700` | `_active`, `_last`, `_notified` | `process()`, a coroutine under a 15 s `wait_for` | cooldown kept, every alarm closed, no false all-clear |
| **Tiered storage** `db.py:575-626, 1856-2031` | tables of raw rows and of 60 s and 3600 s buckets, `_rollup_hwm` | insert, rollup, prune, restart; the reads of the charts | a bucket averages the rows of its period; nothing is pruned before it is folded; a chart, or the lane of the site, reads a table that has its window |
| **Backend events and lanes** `app.py:332-366`, `db.py:1712-1853` | `backend_events` | write on an edge or a heartbeat, prune, reconstruct | the past shown is the past seen |
| **Accounts, sessions and tokens** `db.py:2071-2226, 2924-3022`, `auth.py:60-190`, `app.py:771-1050, 1185-1620` | the tables `users` and `api_tokens`, `_sessions`, `_token_sessions` | login, logout, change password, create, edit, delete, mint, revoke; judging a request | there is always an administrator; nothing outlives the account it acts for; a role is that of now |
| **Login lockout** `app.py:827-1000, 1241-1305` | failures and locks per address and account | strike, lock, acquit, prune | a lock has its failures and ends; pruning is not noticed |
| **Event streams** `app.py:4036-4124` | counts per address and in total | open, write, re-check, every way to end | each exit gives its slot back; a revoked client is cut off |
| **Runtime settings** `config.py:600-750`, `app.py:1640-1665` | live values, the `settings` table | set, reset, reload | live equals shown; a restart changes nothing that was saved |
| **Teams and users of the board** `app.py:2580-2900`, `db.py:2520-2660` | a cache of detections, `team_detect`, two tables of overrides | load, refresh, sync, assign, restart | what was detected does not blink |
| **LiteLLM heavy poll** `collectors/litellm.py:255-355, 1291-1345, 1424-1602, 1752-1905` | `_HEAVY`, `_CB`, `_KEY_BUDGETS_CACHE` | pull the spend logs, walk the lists page by page, skip, reuse | a struggling proxy is left alone and still asked again; a list is read to its end |
| **Token types on demand** `app.py:3014-3128`, `litellm.py:1911-2002` | a cache, a single flight, a third breaker | lead, follow, pull by the day, give up | one pull at a time, no pull repeated |
| **Known keys and visibility gate** `db.py:696-836`, `app.py:2057-2153` | the `known_keys` table, two memoised sets | upsert with a debounced owner, hide, warm, serve | an owner is lost only when the proxy says so; a response names the keys it may |
| **Per-key counters** `dbutil.py:76`, `db.py:847-1085`, `1150-1397` | cumulative counters per key | sample, delta, line, split of a total | a re-base does not count as use; a split total stays whole |
| **Spend tables** `db.py:2270-2523`, `app.py:3653-3822, 4290-4361` | `spend_daily`, `spend_model_user_daily`, a marker | capture, page, poll, backfill, prune | no request counted twice, no finished day lost |
| **Spend charts and budgets panel** `app.py:2379-2445, 3256-3970`, `db.py:2293-2435` | none of their own | window, price, group, fold the tail, join | the charts of one usage agree |
| Log de-duplication `obslog.py:135-176`; parsers `config.py:425-487` | recent lines | filter, flush | a suppressed line is accounted for |
| Anomaly detector, Prometheus export, parsing, front end, channels, deployment | none of their own | – | presentation and I/O |

**How they interact.** Each collector loop writes one entry of the cache and
nothing else. The sampling loop reads the whole cache, whether it has been
refreshed or not, and everything downstream (latch, notifier, event tracker, raw
rows, known keys, the sets of the visibility gate) is driven by that snapshot
once per tick. Handlers run between the awaits of all these tasks on the same
event loop; database writes of a tick run in a thread. The latch and the notifier
share the sets `firing`, `held` and `cancelled` of one call of `evaluate`.
Handlers share the user table and the session list with each other, `known_keys`
with the sampling loop, the spend tables with two background loops, and the
LiteLLM breakers and caches with its collector loop.

**What is hard.** (a) An answer is cached and read at another pace than it is
produced. (b) `wait_for` cancels a coroutine at any await, and what it did before
that is kept. (c) Work in threads outlives the coroutine that waited for it.
(d) A handler authorises a request, awaits its form or LiteLLM, and then acts.
(e) Every database write is best-effort: an error is counted and swallowed. (f) A
restart loses all state in memory and none in SQLite. (g) The wall clock gates
the rollup and may jump. (h) Several windows, buckets and thresholds meet at
their boundaries. (i) The same usage reaches a page by several roads, each with
its own window. `PROJECT.json` lists the hazards one by one, each at its line
with the properties that watch it.

## 2. The modules

| Module | Models | Extends / instantiates |
|---|---|---|
| `BackendHealth` | `alerts.evaluate` for the backends; one call is one step | |
| `MCBackendHealth` | two interchangeable backends | `BackendHealth` |
| `BackendHealthProofs` | theorems about the latch | `BackendHealth` |
| `Pager` | abstract: what the alert channel promises its reader | |
| `Notifier` | `Notifier.process`, a step per await, and its cancellation | instantiates `Pager` twice |
| `NotifierProofs` | theorems about the notifier | `Notifier` |
| `Rollup` | insert, rollup and prune under the sampling loop; the reads of the charts | |
| `SiteLane`, `MCRollup` | the lane of the site, read from the tables of `Rollup` | extends `Rollup` |
| `Timeline` | event tracking and the two reconstructions of a backend's past | |
| `Accounts` | users, sessions and the handlers that change them | |
| `Gate`, `MCGate` | the other credentials, and what a request may reach | `Accounts` |
| `GateProofs` | theorems about accounts, sessions, tokens and verdicts | `Gate` |
| `Lockout` | failures, locks and logins that overlap | |
| `Streams` | the event streams and their slots | |
| `WebProofs` | theorems about the locks, the streams and the figures | `Lockout`, `Streams`, `Figures` |
| `Collectors` | the polling loops, the cache, the GPU probes and their permits | |
| `AlertPipeline` | composition: loops, cache, sampler, latch | instantiates `Collectors` and `BackendHealth` |
| `AlertPipelineProofs` | refinement of the latch, the permits of the probes | `AlertPipeline`; instantiates `BackendHealthProofs` |
| `KeyOwners` | heavy poll, breakers, caches, panels, `known_keys` | |
| `RecordProofs` | theorems about the breaker of the logs, the owners and the events | `KeyOwners`, `Timeline` |
| `Settings` | overrides of the settings, live and stored | |
| `Board` | detected teams and users, and the overrides over them | |
| `Visibility` | the gate of hidden keys and its memo | |
| `TokenTypes` | token counts on demand: cache, single flight, breaker | |
| `Pages`, `MCPages` | the last four, side by side | extends `Settings`, instantiates the others |
| `Ledger` | the two tables of days and their four writers | |
| `PagesProofs` | theorems about the tables of days and the parts of `Pages` | `Pages`, `Ledger` |
| `Paging` | the walks over the lists of LiteLLM, by several callers at once | |
| `Budgets` | the join behind the budgets panel | |
| `StorageProofs` | theorems about the tiers, the lane of the site, the walks and the panel | `SiteLane`, `Paging`, `Budgets` |
| `Counters` | charts of a running total that is re-based | |
| `Attribution` | who was behind the load of the proxy | |
| `Charts` | the charts of one usage | |
| `Figures` | the last three, side by side | instantiates them |
| `MCFigures` | run of `Ledger`, `Paging`, `Budgets` and `Figures` | extends them |

`Pages`, `Figures` and `MCFigures` are not compositions. Their parts share no state, so no
interleaving of one with another tells anything; a behaviour picks a part and runs
it alone, and the properties of each part are checked over all its states. A
module of proofs that extends two components states theorems on each of them
alone: where two specifications meet in one module, the definitions of one have a
prefix (`StreamsInit`, `LaneInit`, `LedgerInit`, `WalkInit`, `PanelInit`,
`FigureInit`).

Operators whose comment starts with "Mutant of" are deliberately wrong variants
of the definition they name. No specification uses them; each documents a bug
that a named property catches (`PROJECT.json`, "mutants").

Variables that a module lists under *History* are read by no guard. They record
what really happened, so that a property can compare it with what the program
remembers.

### 2.1 BackendHealth

`evaluate()` has no await, so a call over all backends is one step. The input is
`ALERT_ON_BACKEND_DOWN`, the set of backends in a maintenance window, and a
verdict per backend. The dictionaries of the code are functions over the
backends; `_down_reason` keeps only its domain, because what the reason says is
text. Two counters saturate where the code stops telling values apart. The
history variables count the good polls in a row and the bad polls since the slate
of a backend was last clean. The stateless threshold alerts of the same function
(CPU, disk, ...) are not modelled.

### 2.2 Notifier and Pager

`process()` is cut at its awaits: resolving a runbook, posting an alarm, posting
an all-clear, recording. At each of these `wait_for` may cancel it. Time is an
age per stamp, so that it stays bounded. `Notifier` refines `Pager` in two ways:
`StampsArePager` maps the abstract cooldown to what the code remembers and holds
with cancellation; `MessagesArePager` maps it to what was really posted and is
claimed only for runs without one, because a cancelled call may have posted
without stamping (section 5).

### 2.3 Rollup

A bucket is the set of rows it averages, because which rows is the only thing
that can be wrong. The sampling loop's iteration is insert, rollup (when
`RollupEvery` has passed), prune (when `PruneEvery` has passed), in that order;
any of the writes may fail and be swallowed. The process may restart after a gap,
losing the high-water mark, and the wall clock may be set back. `PickTier` and
`Series` are the reads: a property compares what a chart finds of a window with
what was ever recorded of it. Four assumptions say which intervals fit each other:
there is a finest and a coarsest tier; the grace spans two buckets of every tier,
as in the code, and what the clock loses in all; the raw rows outlive the longest
time without a rollup, made of what fails, the downtime and what the clock loses.

`SiteLane` is `self_uptime_segments`, an operator on the tables as `Rollup` leaves
them, pruned and rolled up late. `SiteTable` chooses the table by the age of the start
of the window: the raw one with its 60 s of tolerance, the finest tier for windows up
to 30 d only. `Thresh` is the gap that counts as down, a number of intervals of that
table and no less than the floor of 15 s. `Runs` joins the rows that lie no further
apart (`Join`), and `Placed` lays the runs into the window (`Place`); both are recursive
functions. The lane is compared with every row that was ever in the table it is read
from (`Written`), those gone since included, so that pruning shows: at the far end of
what a table keeps, the lane begins with a gap in which the process was up. The property
excepts that edge, one threshold long, and `NoLeadingGap` (section 5) is the same without
the exception.

### 2.4 Timeline

`Track` is `_track_events` for one backend, with the loss of the write as a
choice. Rows are stored in the order of their stamps, so `Prune`, which keeps the
young ones and the newest, leaves a tail of them. The readers are translated as
operators on the stored rows, checked for every window in every state against `seen`,
what every tick really saw. Each loop of the code is a recursive function of the
number of rows read: `Fold` runs the body of a loop (`LaneStep` in `StatusSegments`,
`UptimeStep` in `Uptime`) over the rows of a window.

### 2.5 Accounts and Gate

The guarded writes of `db.py` are SQL statements with the count of the
administrators in their WHERE clause, so each is atomic. A handler does not await
between reading its form and its last write to memory; it is one step that uses
what it read before its await (`changing`: the session a password change has
already looked up; `minting`: the one a new token was asked for with). An
administrator's request was authorised earlier, so its step is enabled whoever is
an administrator now. Password hashing is the identity on a small set, since only
equality is used.

`Gate` adds the personal tokens, the shared token and its cookies to the actions
of `Accounts`: each of those is conjoined with what it does to the tokens
(`CutsTokens`, `LeavesTokens`). `_auth_ctx`, `_is_master_token_auth`,
`_effective_role` and the rules of `_auth_mw` are operators on the tables, and the
properties quantify over everything a request can carry. On one combination, a
personal token in the header next to a cookie for the shared token
(`TokenBesideCookie`), `_auth_ctx` and `_is_master_token_auth` disagree about who is
asking: the role is "admin", and it does not count as the shared token's. So it
reaches the administration and cost, whoever owns the personal token. `AdminsOnly`
excepts it by name; section 5 sets it against the comments.

`GateAssumption` says that a secret that was drawn is never the word for the shared
token, nor the mark for a missing credential: in the code these are random strings
of `secrets.token_urlsafe` and `None`. `InOrder` is what is left of a dictionary
after `pop`: some sessions, in the order in which they were put in.

### 2.6 Lockout

`book` holds a deque and a lock per key, an address or an account. Three places
look at it in three orders and each is an action: the middleware tries the
credential before the lock, `metrics_handler` the lock before the credential, and
the login form the address before it has read the form, the account after, all by
the clock of its beginning. `ended` (history) dates the failures by when they
happened, where the code dates them by when their request began. `full` (history)
is the book as the same attempts would have left it, had it never been pruned; it is
kept for the keys that no late attempt has struck, that is, none that began before the
last pruning (`older`) or before the last failure counted (`slow`).

### 2.7 Streams

A stream is somewhere between the middleware and its `finally`: preparing its
headers, writing a frame, asleep. `End` is what the `finally` does, and five
actions end in it. `authed` is what `Gate` would say of the client, and changes
at any moment. Ages are counted in rounds of `SAMPLE_INTERVAL`.

### 2.8 Collectors and AlertPipeline

A backend behaves as it likes (`Turn`: well, failing, hanging). A loop polls,
gets an answer, or times out; the GPU loop needs one of two permits, and a thread
that timed out keeps its permit until it returns (`LateReturn`). `AlertPipeline`
adds the sampler (`Sample` copies the cache, `Judge` evaluates it some awaits
later) and the latch.

### 2.9 KeyOwners

The loop's heavy poll reads the clock, pulls the spend logs and walks
`/key/list`; a panel may walk at the same time. `breaker[n].left` is what remains
of the cooldown; it goes on below zero, as far as a poll is long, because a poll
compares it with the time it read when it began. `heavyAge` and `cacheAge` are
the ages of the two caches. `Tick` is the sampling loop writing the keys of the
latest entry. The proxy is the environment: it may fail, cut a walk short, miss an
owner, or time out, and at some moment (`Settle`) it becomes well for good.
`EverOwned` says which keys may ever be named with an owner. The full mode is
checked; `lite` and `off` are in the module.

### 2.10 Settings

The overlay, the module constants it is copied onto, and the table. Numbers are
counted in halves, so that what `int()` cuts off is there, and NaN is a value of
its own. A write may fail, which the handler does not see. `MCPages` has one
setting of each kind.

### 2.11 Board

`Seeded`, `Folded` and `Merged` are `_detect_teams` and `_merge_team`: the first
request after a start reads the table, each folds in what LiteLLM and the snapshot
say. A request that asks LiteLLM awaits it between `Ask` and `Answered`. Which of
the writes on the way succeed is a choice (`Persist`), and so is whether the one read
does (`Reads`): `team_detect_all` answers an error with an empty dictionary, and
`_TEAMS_LOADED` is set all the same. `misread` (history) says that this happened to a
table with rows. The board is then blank, and what it merges is written over the rows,
until the next restart; `NeverBlinks` and `StoredKept` except it, and
`RestartShowsLast` (section 5) does not. The user id and the budget of a key are merged
like its team, and left out.

### 2.12 Paging, Budgets

`Paging` has a server that Init chooses: it gives short pages, a number of pages,
a count or neither, and heeds the page number or ignores it. Each page is an await,
so the sampler and a panel may walk at the same time, and either may write
`cached`; any page may fail (`PageFails`), which cuts the walk. `Reads` is what the
walk makes of an answer, for both lists; they differ in that the walk of the users
leaves out what it has seen. `KeptList` is the end of `key_budgets`.

`Budgets` has two views of the same keys that name them by different fields.
`List` reads an entry of `/key/list`, `FoldIn` one of the snapshot, in any order,
as the order of a dictionary is not the panel's to choose. Where the code labels a
row without any identity "unidentified-n", the row here has the number alone.

### 2.13 Visibility

`gate` is `_vis_gate`. The thread that a tick starts reads and assigns one set,
then the other, then the stamp, with requests in between; a request that finds the
stamp old reads both itself. A read that fails returns an empty set, which for one
of the sets means "hide nobody" and for the other "no baseline". `turned` and
`fault` (history) say since when the truth about a label, and the reads, are
settled.

### 2.14 Ledger

Four actors await LiteLLM between what they read and what they write: `pull[a]`.
The hourly capture and an open spend page upsert `spend_daily`; the heavy poll and
the one-time backfill replace rows of `spend_model_user_daily`. Usage, spend and
cost come from different endpoints, of which some may fail. `truth` is what
LiteLLM has logged; `final` remembers which days were last written by a pull that
began after they had ended. `Shown` is the overlay of the page. No step of a writer
of one table reads the other, so the run explores the two tables as two parts; the
theorem is about all four writers together.

### 2.15 Figures: Counters, Attribution, Charts; TokenTypes

`Counters` has a running total that is re-based now and then and sampled now and then;
`WindowDelta`, `DeltaSeries` and `MonotonicSeries` are the three readings of it.
`Attribution` has a total per bucket and what was recorded per label beside it, as
counts, running totals or gauges; `Chart` is `concurrency_by_key` of a window, with
the choice of the basis made by its handler. `Charts` has a set of rows (day, model,
key) of one token each, the prices an operator pins and who is assigned what; the
charts are operators on them, over every window and every day the page may be panned
to. LiteLLM's activity may carry its own cash for some models (`reported`), which the
model chart takes before any price (`Value`), where the model-and-user chart is tokens
times price (`Cost`); the handler of the first fetches a year back from today, and the
second leaves out a key for its own name or for its owner's (`Barred`). `Figures` holds
the three side by side, with what is assumed of their constants and the two properties
about them.

`TokenTypes` has the requests of a panel, each of which is served from the cache,
follows a pull that runs or leads one.

## 3. What the runs check

| Run | Distinct states | Shows |
|---|---|---|
| `backend_latch` | 11,796 (after symmetry) | `HealthyRunClears`: `UpAfter` good polls in a row leave nothing latched. `ArmOnEvidence`: nothing arms on fewer than `DownAfter` bad polls since the slate was clean, by the run rule or the majority rule. `AbsenceExplained`: a key that leaves the result is held, cancelled or recovered, and exactly one of them. `LatchInv`: the strengthening the proof uses. |
| `notifier` | 23,658 | `DueMatchesHistory`: pruning the stamps never changes what is due. `AlarmsTracked`, up to the first cancelled call: an open alarm is remembered, and no all-clear is posted for a key that is no longer watched. The two refinements of `Pager`. `UncancelledAlarmCloses`: an alarm that stops firing is closed, if calls end. |
| `rollup` | 230,889 | `RecentBucketsExact`: after each rollup the open and the previous bucket of every tier average all their rows. `NoRowLost`: a rollup leaves no raw row unfolded, no row is deleted before it reached the tiers, and a chart finds every row of its window in the table it picks, as far back as a table keeps them. `SiteGapsAreReal`: whichever table the lane of the site is read from, it hides no time the process was down and invents none, but for the first threshold of what the table keeps. |
| `timeline` | 68,081 | `LaneIsTrue`: lanes without hole or overlap, showing no state that was not seen, of a backend that stays known through pruning; the newest row, which is never pruned, is what was last seen. `LostEventIsMended`: a lost write is repaired by a heartbeat. |
| `gate` | 126,912 (after symmetry) | `AdminRemains`: some row is an administrator, whatever requests interleave. `CredentialsInStep`: no session, copied flag or token outlives the account or the change it goes back to. `AdminsOnly`: whatever reaches administration or cost belongs to an enabled administrator of this moment, but for a personal token beside a cookie for the shared one. `SharedTokenKeptOut`: the shared token alone does not, and adds nothing to a session. `MustChangeConfines`: whoever owes a new password reaches only the page for it. |
| `lockout` | 1,226,530 | `LocksJustified`: a lock has its threshold of failures inside a window. `LockNotProlonged`: knocking does not prolong it, but for a login begun before. `PruneIsInvisible`: the next attempt is judged as in a book that was never pruned, by the clock of now and by that of every login begun since the last pruning. |
| `streams` | 15,988 | `StreamsInv`: the counts are the streams there are. `RevokedSoon`: a client without credential is sent the frames of one interval at most. `StreamsEnd`: every stream ends. |
| `alert_pipeline` | 199,680 | `ProbesBounded`: running and stranded probes never outnumber the threads, and every permit is free or with a live thread. `HungIsReported`: a backend that hangs for good is reported DOWN. `HealedIsReleased`: one that is well for good is let go. |
| `key_owners` | 514,824 | `OneProbePerCooldown`: after `CbThreshold` failed pulls the logs are asked for once per cooldown. `OwnerNotLostUnread`: silence never takes an owner away. `OwnersConverge`: once the proxy is well, the table becomes right. |
| `figures` | 609,780 | `ChartsAgree`: each chart counts every row of its window once; the two cost charts differ by the rows that one leaves out and by how far LiteLLM's own cash is from the price, and by nothing else; hiding a key hides no money. `LedgerTrue`, of both tables: no request is counted twice by two writers, a day read after its end is complete, a stored cost is not blanked, and the page shows no more and no less. `TotalsTrue`: a bar is the activity since its baseline, re-bases aside; adjacent bars add up; no line climbs above its bar; a total split by label stays whole, goes to those who worked, and is split alike at every zoom. `ListsRead`: a list is read to its end; a walk cut short shrinks no board, whoever else walks. `PanelComplete`: each key once, in any order. |
| `pages` | 486,172 | `SettingsHold`: the constants are what the page shows, everything kept is valid, a restart keeps what was saved. `BoardHolds`: a detection does not go blank again, on the board or in its table, unless a row could not be written or the table not be read; no identifier is shown. `KeysGated`: a response names exactly the keys it may, once things have been settled for the TTL and one read. `TokensPulledOnce`: one pull of a window at a time, none before its time, few when the breaker opens. |

The run `rollup_overwrites` checks one sentence that a comment of the repository
says and the code does not keep; section 5, which also lists the further formulas
of that kind that stand in the modules and in no run.

### Bounds, and why they are enough

- *Latch*: two backends (they share no state but the rebuilt sets), `DownAfter`
  and `UpAfter` 3, window 5: both arming rules, the decay and the reset between
  them are reachable separately and together. The theorems remove the bound.
- *Notifier*: two keys (one fires while the other recovers in the same call),
  cooldown 2 with gaps of 1 and 2 ticks, so that a call falls before, on and after
  its end; one stamp kept before pruning, so that pruning bites; one cancellation,
  which is enough to leave a call's work half done and to meet the next call.
- *Rollup*: tiers of 2 and 4 units, grace of two buckets of the coarser as in
  the code, one restart, two failures, one setback shorter than the grace. Windows
  of 3, 8 and 16 units, panned by 0, 6 and 10, fall on each side of `RawSpan`,
  `FineSpan` and of what each table keeps (14 units raw, 18 and 20 in the tiers), so the
  lane of the site is read from each of the three, and from where each is pruned. A stop
  of 5 units is longer than the threshold of every table; the floor of 2 is above the
  interval of the raw rows and not above the others. A setback beyond the grace, and a first
  rollup that fails after a stop longer than the raw retention, lose data, and are
  excluded by the bounds; after any setback the lane is only checked not to hide a gap.
- *Timeline*: seven ticks, heartbeat 3, retention 4: an event is pruned while it
  is the only one, after two heartbeats. One lost write, one restart.
- *Gate*: two names and two passwords suffice for every race of two requests;
  three session ids with a ceiling of one session make trimming happen; two tokens
  with a limit of one make the race past the limit happen; one form at a time is
  read while anything else changes, and one cookie stands for the shared token's.
- *Lockout*: one address and one account, thresholds 3 and 2, a window of 2, locks
  of 3 and 2 in seven instants: a failure leaves the window, a lock ends and is set
  again, and two logins overlap with either ending first.
- *Streams*: three requests of two clients with caps of two, so that a request is
  refused by either cap; a check every second round and a lifetime of three.
- *Pipeline*: one GPU and one HTTP loop, two permits as in the code, thresholds
  of 1 (the counting is `BackendHealth`'s subject).
- *Key owners*: one key that may be owned and one that is not, so that a walk can
  be cut short; intervals of one tick, a cooldown of two, so that a probe that
  fails differs from one that is due; a blank threshold of two.
- *Settings*: a setting of each kind, numbers on and beside each bound and between
  the integers, two environments. *Board*: one key (no step relates two), two teams
  and two users, two requests. *Paging*: two callers, up to four entries in pages of
  up to three, walks that stop after three pages where the code stops after 50, so
  that some lists end before and some after; a failure on any page. *Budgets*: two
  keys with every choice of fields. *Visibility*: two labels, one excluded; TTL and
  read of the thread one unit each; from a start at 3 to 7 there is time for a change,
  or a failed read, and for a response more than a TTL and a read later, which is when
  the property speaks of it. One change and one failed read are enough, since a second
  only postpones that moment.
- *Ledger*: three days, one actor's pull across midnight while the other writes;
  the live days, the window, the backfill and the retention one day each, so that a
  day leaves each of them within the run. *Counters*: five ticks, re-bases to 0 and
  1, every window. *Attribution*: four buckets, totals that are
  steady, falling and with a gap, two labels of which one is named, two readings or
  gauges, so that a bucket lies between two others that worked, or beyond the gap.
  *Charts*: six days in months of two, two rows, one line kept so
  that a tail is folded, two days to pan to, of which one has windows that begin before
  the year fetched; the external model with LiteLLM's own cash or without, one owner who
  is excluded by name. *Token types*: two windows, two
  requests, a cache of one entry, a pull of two days that may fail at each.

### Fairness

Weak fairness is assumed of the program's own tasks only: the collector loops
and the sampling loop are `while True` tasks of one event loop, each of whose
awaits has a timeout (`app.py:126-151, 4371-4385`), `process` runs under
`wait_for`, and the loop of a stream is a task whose write ends because the client
reads it or its connection breaks (`app.py:4089-4124`). Nothing is assumed of
users, panels, webhooks or of the backends: liveness is stated for a backend that
hangs *for good*, is well *for good*, or a proxy that is well *from now on*. A GPU
thread is let return only once its driver no longer hangs. The other runs state
safety and need no fairness.

Deadlock is checked in all passing runs; where time is bounded by guards
(`Rollup`, `Timeline`, `Counters`) its end is an explicit stutter, and in the
other bounded modules some step remains enabled at the end of time.

## 4. What is proved

The theorems hold for every value of the constants, under the assumptions named in
the modules that declare them (`ConfigAssumption`, `NotifierAssumption`,
`AccountsAssumption`, `GateAssumption`, `LockoutAssumption`, `StreamsAssumption`,
`PipelineAssumption`, `KeyOwnersAssumption`, `TimelineAssumption`, `LedgerAssumption`,
`SettingsAssumption`, `PagingAssumption`, `SiteAssumption`, the four of `Rollup`, the
three of `Pages` and the three of `Figures`), which TLC evaluates as well. Most say that a number is a number. Those
that say more are `GraceAssumption` and `RetentionAssumption` (2.3), the drawn
secrets (2.5), and `BoardAssumption`: no team and no user is named like an
identifier or by nothing; `ChartsAssumption`: no model and no key is called "Other",
some key is not excluded, and the page is panned to days of the calendar; and
`WorkAssumption`: the unit in which shares are counted is fine enough to show the
least of them. Each theorem is proved from an inductive invariant.

**The latch** (`BackendHealthProofs`)

- `LatchInvariant`, `TypeCorrect`. `IInv == TypeOK /\ LatchInv` is inductive.
  `LatchInv` ties the counters of the code to the polls really seen: the up-streak
  never rests at its threshold, a latched backend has a reason and an up-streak of
  at least its run of good polls, where that run is longer than the up-streak the
  window holds no failure to arm on, and neither the down-streak nor the failures
  inside the window exceed the bad polls since the slate was clean. It is needed
  because `HealthyRunClears` and `ArmOnEvidence` speak of polls while the code
  compares counters that decay, are emptied and are cut to a window.
- `HealthyBackendIsQuiet`, `PagesOnEvidence` follow from it: the first as an
  invariant, the second as an action property, with a case per arming rule.
- `AbsenceIsExplained`, from the invariant that what is latched is what was
  reported or held back by the last call.

**The pipeline** (`AlertPipelineProofs`)

- `PipelineIsLatch`: loops, cache, sampler and latch together implement the latch
  alone. A judgement is a call of `evaluate` with the verdicts of the snapshot;
  every other step is a stutter. It needs that a snapshot is a function from the
  watched backends to verdicts (`SnapInv`), and that in turn the types of the loops.
- `PipelineHealthyIsQuiet`, `PipelinePagesOnEvidence`: the theorems on the latch,
  carried over. The lemma `SameLatch` identifies the latch inside the composition
  with the one the proofs of `BackendHealthProofs` are about.
- `ProbesStayBounded`, for any number of permits and loops. The invariant says that
  the free permits, the probe that is awaited and the threads nobody awaits add up
  to the permits; a timeout moves one from the second to the third.

**The notifier** (`NotifierProofs`)

- `PruningIsInvisible`. The stamps kept decide as an unbounded history would, for
  any ceiling: a stamp that is dropped is older than the cooldown, so its absence
  and its age give the same answer.
- `MemoryImplementsPager`. Every step is an alarm, an all-clear, silence or a
  stutter of `Pager` on the notifier's own memory, with any number of cancelled
  calls.
- `AlarmsAreTracked` and `MessagesImplementPager`, of what the reader of the channel
  really got, as long as no call was cancelled. The invariant (`ReaderInv`) says at
  each await what the reader has heard, told from what the notifier remembers:
  between the post of a message and its stamp he is one message ahead (`Heard`), and
  whoever waits for an all-clear is active, held, or on the list of the call. After
  a cancellation that is false, which is the second entry of section 5.

**Accounts and gate** (`GateProofs`)

- `LastAdminStays`. Inductive invariant: the rows are well-typed, the table is
  finite, and some row is an administrator. Finiteness is what makes the COUNT in
  the guard meaningful when the names are not bounded; the lemma `AnotherAdmin`
  turns "more than one" into another witness.
- `AccountsInStep`. The store holds no id twice, stays under its ceiling, every
  session has an enabled account and carries its obligation. The strengthening
  (`SessionsInv`): a password change under way and an open session with the same id
  are of the same user, without which the change could lift the obligation of
  somebody else's session. `InOrderIsStore` and `TailIsStore` say that what `pop`
  leaves is a store.
- `GateIsAccounts`. A behaviour of the gate is one of `Accounts`; so both theorems
  hold under it (`LastAdminStaysAtTheGate`).
- `CredentialsStayInStep`. Strengthening (`TokensInv`): a request that is creating a
  token was let in because its user owed nothing, and while its session is open that
  is still so (`FormsInv`); every form being read counts against the limit like a
  token (`LimitInv`), which is why the limit is exceeded by less than the forms.
- `OwingConfines`, from the same invariant: a token that goes in after the cut of a
  reset is late, because an open session of someone who owes would contradict
  `FormsInv`.
- `OnlyAdminsAdminister`, `SharedTokenStaysOut`: case analyses over the functions
  that judge a request, in any state the invariant allows. `SessionRole` says that a
  request shows one session at most, `AdminHasCause` what makes an administrator: his
  own credential, or anybody's personal token beside a cookie for the shared one.

**Login lockout** (`WebProofs`)

- `LocksAreJustified`, `PruningIsInvisible`, `LocksAreNotProlonged`, for any
  addresses, accounts, thresholds and windows. The invariant (`SoundBook`) says of
  every deque that a failure ended no earlier than its attempt began, that failures
  were appended in the order in which they ended, that there are fewer than the
  threshold, and that no lock reaches further than one sentence from now. The order
  of the ends is what makes a cut at the head enough: what is cut is the longest
  stale prefix (`LongestPrefix`, `StaleIsPrefix`, `KeptIsTail`), so of the failures
  left at a lock none had ended more than a window before (`ChargesSound`).
  For the pruning the invariant goes on beside `full` (`Twin`): in order there, the
  failures of a key are those of the book, or the book has none and all are stale by
  every clock that may still judge (`Clocks`); the lock is that of the book, or over by
  all of them. Pruning at `now` leaves no other clock than `now`, which is what makes
  this inductive (`SweepTwins`, `PrunedTwin`, `StruckTwin`).

**Event streams** (`WebProofs`)

- `StreamsInvHolds`, `RevokedSoonHolds`, for any clients, caps, intervals and any
  finite set of requests. `IInv` joins the types and `SlotsCounted` with two facts
  about ages: a frame is being written only when the last check is recent
  (`CheckedInTime`), and the rounds a stream has gone on without a credential are no
  more than the age of its last check, plus one while a frame is out (`UnseenInv`).
  That `active` and `total` never go below zero, where the code guards against it,
  follows: the guard of `Release` is never needed.

**Key owners** (`RecordProofs`)

- `ProxyIsLeftAlone`. The breaker counts failures that saturate and keeps the rest
  of a cooldown that may have begun before the failure was recorded. The invariant
  (`BreakerInv`): in full mode the failures in a row are those of the breaker, and
  from the threshold on either the cooldown is over or the rest of it and the time
  since the last failure make up a cooldown.
- `OwnersAreNotLostUnread`. Every reading that is kept anywhere, in the heavy poll
  or in the cache, names a key without an owner only if a walk found it so
  (`Found`), and every step writes one such reading to the table or none (`Does`);
  `UpsertKeeps` says what a reading can take away. The proof showed that the
  property has to look at the walk of the very step, too: with a blank threshold of
  one a panel's first walk clears an owner.

**Events of a backend** (`RecordProofs`)

- `LostEventsAreMended`, for any heartbeat, retention and downtimes. What the process
  remembers of a backend is its newest stored row, unless that is the one whose write
  was lost (`Remembered`); so the first heartbeat that finds the backend configured
  writes what is true, and no pruning takes it, as the newest row stays.
- `LanesAreTrue`, for any window in any state. The invariant (`LaneHist`) says what the
  rows tell: they are ordered and each was seen (`Stamped`), the newest row up to an
  instant is what was last seen then, while no event was lost (`SeenSince`), and one that
  was watched for a heartbeat inside the retention has a row from then on (`Beats`). A
  lane is read row by row: what the first rows make of a window covers it up to the
  cursor, without hole or needless cut, and shows what the rows tell (`LaneAt`,
  `EmitFills`), and the time it counts is the time `Uptime` counts (`UptimeSame`). That
  the newest row outlives every pruning (`NewestSurvives`) needs that no two rows have
  one stamp (`Once`).

The lane is an induction over the rows. `Least` takes the least of the numbers at which
something fails, as inclusion of finite sets is well-founded; `Induct` states it for a
set of numbers, and `Recursion` follows: the function a recursive definition asks for
exists, so its equation may be used. `StorageProofs` has the same three lemmas.

**Tiered storage** (`StorageProofs`)

- `RecentBucketsStayExact`, `NoRowIsLost`, for any tiers, intervals and retentions
  that fit each other, any number of failures, restarts and setbacks. The invariant
  does an accounting: `Lost` is what the clock has lost so far, `Lag` how long there
  may have been no rollup, made of what failed, the downtime, `Lost` and the time
  since the last try. A row that is in no tier is younger than `Lag`, and was stored no
  longer than `Lost` before the mark (`UnfoldedIsYoung`), so the next scan, which
  begins a grace before the mark, reaches it (`ScanReaches`); a row that is gone from
  the raw table is older than `RawKeep` (`GoneIsOld`), which is more than `Lag` and more
  than two buckets, so what was pruned was folded and no recent bucket misses it.
- `SiteGapsStayReal`, for any threshold, floor and tolerance besides. A table has no
  stamp that was not written, and all that were written within what it keeps
  (`StampsAre`). After any number of ticks the runs cover the rows read so far and
  lie further apart than the threshold (`RunsAre`), so two rows no further apart than
  that are of one run (`RunsBridge`); laid into the window run by run they cover it up to
  the cursor (`SiteFills`), and what is left is the tail. What is drawn up is therefore
  spanned by stamps of the table (`DrawnIsSpanned`), and the rows that bridge an instant
  are there unless the first of them may have been pruned.

**The spend tables** (`PagesProofs`)

- `TablesAreTrue`, for any actors, days, windows, backfills and retentions. A pull is
  `Faithful`: none of its numbers is larger than the truth, those of a day that had
  ended when the pull began are exact, and a poll has missed no day of its window. Time
  keeps a pull faithful, because only days that have not ended grow (`StaysFaithful`),
  and each write of a faithful pull keeps the tables true, whoever wrote meanwhile.

**The pages** (`PagesProofs`)

- `SettingsAreSafe`, `SettingsPartHolds`. A name whose last change the table took is in
  the table exactly as in the overlay (`Saved`), so a start finds it there. It needs
  that the number that validation lets in is let in again when it comes back (`Cut` of
  a whole number is itself).
- `BoardPartHolds`. Before the table is read nothing is cached and nobody asks, and in a
  process that did not fail to read it the board says whatever the rows say (`BoardInv`);
  so no load takes anything away, and no merge is written over more than it knows. From
  then on each step only gains, as `Merged` never gives up a field.
- `GatePartHolds`. While a thread is under way, what it has read of a label that has
  not changed since it began, while no read failed, is true (`ThreadTrue`), and the gate
  holds nothing that was read longer than `MaxRead` before its stamp (`GateTrue`).
- `TokensPartHolds`. Windows in flight and requests that pull correspond one to one
  (`Flights`), and whatever is remembered as good is in the cache with its stamp
  (`GoodIsCached`). While the breaker is open each failed day has ended a pull, so the
  late failures and the pulls still running are fewer than the requests (`Quiet`).

The lemma `PartsRun` says that each part runs in `Pages` as it would alone.

**Lists and panel** (`StorageProofs`)

- `ListsAreRead`, for any callers, entries, pages and limits. On a server that heeds
  the page a walk has read exactly the entries of the pages it asked for
  (`OnTheWay`): so its count is theirs, the size remembered is that of the first page,
  and each of the three ways to know the last page, and the page with nothing on
  it, mean that nothing is left. On one that ignores it, the second page brings nothing
  new (`NoticesLoop`). As long as the list is no longer than the walks are, one
  that is kept in place of another is complete or no smaller (`KeptIsFuller`).
- `PanelIsComplete`, for any keys and names, in any order. Each row says what a source
  says of its key (`RowTrue`). Where the sources tell the keys apart, rows that are
  joined are of one key (`JoinedAreOfOneKey`), so a row is only ever left out, or
  replaced, for one of its own key, and a key that has a row is always joined with it
  (`KeysRead`). The rows without a label are numbered up to how many they are, which
  keeps the next number free.

**The figures** (`WebProofs`)

- `ChartsAlwaysAgree`, for any models, prices, pins, keys, owners, calendar and windows,
  and however many lines a chart keeps. `TotalsAreTrue`, for any samples, re-bases,
  loads, windows, lookbacks and grids of buckets. The invariant (`FigureInv`) says little,
  because nothing here is remembered: what the rows and the readings are (`ChartInv`,
  `WorkInv`), and of the counters (`CountInv`) that a later sample is no more than an
  earlier one plus what was requested between, and exactly that where nothing was
  re-based (`Reads`). The work is in the operators, in any state it allows.
- *Sums.* The sum of a finite function exists, may be taken one point at a time, split
  by a set, by a function on its points, and swapped with another (`SumExists`,
  `SumTake`, `SumSplit`, `SumParts`, `SumSwap`), by inclusion of finite sets being
  well-founded. Of finitely many lines the largest exist, however ties are broken
  (`TopExists`).
- *Charts.* Folding a tail keeps the money of each point (`TailKeeps`), so that of a
  chart is that of its rows on the axis (`LinesMoney`), whatever the rows are worth: LiteLLM's
  cash or the price in the model chart (`ModelMoney`), the price in the model-and-user
  chart (`UserMoney`). The year that is fetched covers the windows the property speaks of
  (`ActivityCovers`, `MonthsBack`), and the difference of the two follows (`TwoCharts`). On
  the card, the periods of a window partition its rows (`PeriodsAre`) and of a day the
  cost is that of its rows (`DayIs`, `EstimatesAddUp`). A line of a key ends where all
  its rows of the year are counted, and so does its bar (`YearIs`, `BarOf`).
- *Counters.* From any sample on, a window is credited with at least what the counter
  climbed and at most what was requested (`Climb`); it begins at a sample with no credit
  yet (`BeginIs`), which gives the bar (`DeltaHolds`), and a window that is cut differs
  only in whether its second part finds the sample before the cut (`ZoomHolds`). A line
  of averages stays under the credit from bucket to bucket, and an average under every
  later sample plus the credit still to come (`BucketClimb`, `LineRises`).
- *Attribution.* A chart holds numbers, and the shares of a bucket are together no more
  than its total (`WorkChart`, `ChartHolds`), so that "Other" is what is left of it
  (`WorkHeight`). A sum that is not zero has an addend that is not, which is the bucket
  whose work a share is of (`WorkPhantoms`). A gauge that is not zero is at least one of
  at most twice as many as there are labels, and the unit of a share is fine enough for
  that (`WorkRunning`).

**Only model-checked.** Everything about liveness (`HungIsReported`,
`HealedIsReleased`, `UncancelledAlarmCloses`, `OwnersConverge`, `StreamsEnd`), which
is beyond the proof system. Every safety property of a run is proved.

## 5. Where the code and its words differ

One difference is the subject of a run:

1. **Rollup rewrites finished buckets** (`rollup_overwrites`, `db.py:1973`). The
   scan starts at a time that is not the start of a bucket, so the bucket there
   is replaced, at every run, by the average of its last rows only.

Thirteen more are stated as formulas in the modules, next to the properties that do
hold. None is in a run; added to the run of its module, TLC refutes each.

2. **An alarm without an end** (`Notifier!AlarmCloses`, `app.py:522`). Cancelled
   between the post of an alarm and the assignment of `_active`, the key is not
   remembered; if it has stopped firing by the next tick no recovery is sent.
   `alerts.py:5` promises one.
3. **The last administrator can be locked out** (`Accounts!AdminCanLogIn`,
   `db.py:2183`). The guard counts disabled administrators.
4. **One outage counts as many** (`Timeline!OutagesAreTransitions`,
   `db.py:1754`). A heartbeat row that says down is counted as a transition.
5. **The owner debounce runs on ticks, not on polls**
   (`KeyOwners!OwnerRidesOutBlips`, `app.py:474`). The keys of the last heavy poll
   are written again at every tick, so one blank reading clears the owner in three
   ticks, 15 s, where `db.py:726-729` speaks of minutes. The comment of
   `app._store_owners_from_live`, that an upsert "never blanks a known one", has
   been out of date since the debounce.
6. **A token in flight survives a reset** (`Gate!ResetCutsTokens`, `app.py:1583`:
   "a reset must also cut PAT (API) access"). The row of a token whose form was
   being read goes in after the cut.
7. **Refresh does not win** (`Board!RefreshWins`, `app.py:2588`: "a detected team
   only changes on an explicit Refresh", `app.py:2745`: "let it WIN").
   `_merge_team` keeps the first team it was given, whoever asks.
8. **A stored usage can be blanked** (`Ledger!UsageKept`, `db.py:2473-2474`). Cost
   alone is kept over a pull without it; the comment calls the usage always
   present, but requests and spend come from two endpoints and either may be
   missing (`litellm.py:1248-1270`).
9. **The shared token changes what a personal one reaches**
   (`Gate!SharedTokenAddsNothing`, `app.py:771-777`: administration is "withheld from
   it", and needs "an interactive login (or a scoped PAT)"). With a personal token in
   the header and the shared token's cookie, `_auth_ctx` answers "admin" by the
   cookie (`app.py:763-764`), and `_is_master_token_auth` answers no by the token
   (`app.py:779-780`).
10. **A cost per key counts one day too many** (`Charts!KeyCostWithinWindow`,
   `app.py:3836`: "total spend per key WITHIN the selected window"). The days are
   `secs // 86400 + 1`.
11. **Two cost charts on two bases** (`Charts!TwoChartsOnOneBasis`,
   `app.py:3334-3335`: "the SAME basis as 'Cost per model over time', so the two charts
   agree and honor per-model cost overrides"). Where LiteLLM's activity carries its own
   cash, the model chart takes that, whatever price is pinned (`litellm.py:803-813`); the
   model-and-user chart is tokens times price. What does hold is that they differ by
   nothing else (`TwoChartsAgree`).
12. **A step down counts nothing** (`Counters!DropCountsItself`, `db.py:1040-1041`: it
   "contributes the bucket's own value instead"). `_pos_step` answers 0
   (`dbutil.py:87`). `LinesBelowBar` holds because of that: counted as the docstring
   says, the line would end above the bar.
13. **A failed read blanks the board over a restart** (`Board!RestartShowsLast`,
   `app.py:2628-2629`: "a restart shows the last known teams immediately").
   `team_detect_all` answers an error with `{}` (`db.py:2639-2641`), `_TEAMS_LOADED` is
   set, and the merges that follow overwrite the rows that were not read.
14. **The lane of the site begins with a false gap** (`SiteLane!NoLeadingGap`,
   `db.py:1863-1864`: a run that straddles the start of the window "isn't misread as a
   fresh start-of-window outage"). At the far end of what a table keeps, the row before
   the window is gone. The comment at `db.py:1891-1892` admits it for the hourly table;
   it happens at the end of each.

Smaller ones, which no formula singles out. Most come from an order of steps or a
boundary that the models contain, where a property names them as its exception.

*Alerting.* The latch counts snapshots where `config.py:399` speaks of polls. The
comments at `config.py:404-412` and `alerts.py:357` describe a streak that is
reset where the code lets it decay. A post that fails is stamped like a delivered
one (`alerts.py:651`), so it is not repeated before the cooldown. The comments on
`uptime` and `status_segments` say the unknown past is taken as up, the code shows
it as unknown. A window of the site lane that ends exactly on a sample paints the
gap before it as up (`db.py:1927`).

*Access.* `metrics_handler` refuses a locked address whatever it shows, the
middleware does not (`app.py:4276`, `966`). A lock is dated from the start of the
login that caused it, so a slow login shortens it. Pruning may drop a failure that
is followed in its deque by one of an older attempt. "An active lockout
(locked_until > now) is never removed early" (`app.py:843`) is true by the clock of the
pruning; a login that began before it goes by its own clock (`app.py:1249`,
`1258-1261`), at which a lock that was over when it was pruned, or a failure that was
stale, may still have counted. The deques hold 128 failures; a threshold configured
above that is never reached.

*LiteLLM.* The heavy poll that its loop gives up on is repeated without its
interval (`litellm.py:322`). In lite mode failures are recorded as successes
(`litellm.py:1783`). The walk of the keys, unlike that of the users, does not
notice a server that ignores the page number, and asks fifty times. A walk of the
users that is cut midway replaces the directory; one of the keys that is cut but
has as many entries as the stored one may replace keys by others. A walk that stops
at its fiftieth page is not taken for a partial one (`litellm.py:1590`), so of a longer
list, without a count from the server, the first part replaces what was kept.

*Storage.* The comment on `look_from` (`db.py:1956-1959`) says that
`min(_ROLLUP_HWM, now)` keeps a clock that steps back from stranding rows, which
would then be caught "on the next run". The loop only calls `rollup` when the clock is
60 s past the last call (`app.py:530`), that is, when it has caught up and the minimum
changes nothing: a step back by more than the grace strands the rows of the time in
between. `GraceAssumption` excludes it.

*Settings and board.* NaN passes as a float setting, is live, and its write fails
unseen. A detection whose row could not be written is not written again by the
same process. A sync deletes an override that was set while it awaited LiteLLM
(`app.py:2745`). While the cache of detections is empty any name is accepted as a
user (`app.py:2844`).

*Spend tables.* When the polls fail for the whole window after midnight, the
requests after the last good one stay out of `spend_model_user_daily`. The
backfill sets its marker after a failed pull too. Of two pulls the older may be
written last, and stays until the next. The one day that leaves LiteLLM's live
days between the two calls of a page is shown without its cost
(`app.py:3764-3767`). `_mtd_real_spend` sums the live days only, seven on
LiteLLM's free tier, though it is called month-to-date (`app.py:3724`, `2305`).

*Charts.* The card of twelve months shows a month at each end, with the estimated
cost and the split of the tokens of the whole month, while its tokens and its spend
are clipped to the window (`app.py:3544-3570`, `3631-3650`). Panned back on twelve
months, the model chart counts the whole month of the cursor and the model-and-user
chart stops at the cursor. Panned back far enough, the model chart has no data for the
beginning of its window, as a year is fetched from today (`app.py:3885`). A
day with cost and no usage gets no point. When the only key with an owner is an
excluded one, hiding the unassigned keys hides all others (`db.py:809-817`).
`key_delta_series` and the climbing line look further back for their baseline than
the bar; the remark near `db.py:987` that a key never ranks in one and is flat in
the other holds for rows, not for the averages of a bucket. In the budgets panel
two listed keys with equal labels become one row, and a key whose alias is another
one's masked name loses its own.

*Visibility.* The `history` of `data_handler` (`app.py:1772`) is served without
`_snapshot_for_display`, whose docstring (`app.py:2109-2111`) speaks of every
consumer.

## 6. Not modelled, and why

Parsing of backend answers, page rendering, message texts and the front end hold
no state of their own, and neither have the Prometheus export and the anomaly
detector, whose breaches are among the arbitrary keys `Notifier` is given. The
reads of `/proc` and of command output are arbitrary inputs of the loops. The
projections of the spend page (burn, days to the cap, rates per hour) are
arithmetic on one row. Deployment, scripts, fuzzing and tests are not part of the
running program. The log filter and the parsers of the environment are read by no
component above, but for the bounds that `Settings` models.

Of the sampling loop the ring, the heartbeat line of the log and the events of
models loaded and unloaded are left out; of the LiteLLM collector the cheap
signals of each sample, which are parsing.

SQLite is taken as serialisable with atomic statements, which is how `db.py` uses it;
the only failure of a write considered is that it does not happen, where that matters
(`Rollup`, `Timeline`, `Settings`, `Board`, `Ledger`), and of a read that it returns
nothing (`Settings`, `Visibility`, `Board`). `KeyOwners` leaves out the names of owners that
ride along with the ids, and a lost write of the table, which the next tick repeats.
`Paging` assumes that the list does not change while it is walked. `Attribution` lets
one reading stand for the average of a bucket, leaves out the rounding to three
digits, and keeps the grid of buckets in every window; the real one becomes finer as a
window narrows. `Charts` takes LiteLLM's activity and the rollup of the logs to report
the same rows; how they come apart is `Ledger`'s subject. It lets a model report its own
cash on all of its days or on none, and its money is exact, where the code rounds each
line to cents and drops one that rounds to 0.00 (`app.py:3285-3286`). `SiteLane` takes
the raw rows to be a tick apart, where a tick of the code may be late.

## 7. Plan

What is left, most valuable first.

1. *Refinement*: `OneProbePerCooldown` as a property of an abstract breaker that the
   three breakers of the LiteLLM collector implement.
2. *Models*: the events of models loaded and unloaded, which share the tracker with
   `Timeline`; the log filter and the maintenance-window parser, against reference
   definitions.
