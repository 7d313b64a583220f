------------------------------ MODULE KeyOwners ------------------------------
(***************************************************************************)
(* Who owns which LiteLLM key, from the proxy to the charts.  The litellm  *)
(* loop makes a heavy poll once per LITELLM_HEAVY_INTERVAL: it pulls the   *)
(* spend logs and walks /key/list, each behind a circuit breaker           *)
(* (collectors/litellm.py).  The sampling loop writes what the latest poll *)
(* found into known_keys at every tick, the budgets panel does so whenever *)
(* it is opened, and an owner that is missing is held for a while (db.py). *)
(* The charts hide the keys that known_keys gives no owner.                *)
(*                                                                         *)
(* The proxy is the environment: any call may fail, a walk may be cut      *)
(* short, a reading may miss an owner; from some moment on it may be well. *)
(* One unit of time is one tick of the sampling loop.                      *)
(***************************************************************************)
EXTENDS Integers, FiniteSets, Functions

CONSTANTS
    Keys,          \* key labels
    Mode,          \* LITELLM_SPEND_MODE: "full", "lite" or "off"
    HeavyInterval, \* LITELLM_HEAVY_INTERVAL
    CacheTTL,      \* _KEY_BUDGETS_TTL
    CbThreshold, CbCooldown,  \* LITELLM_CB_THRESHOLD, LITELLM_CB_COOLDOWN
    PollBound,     \* the loop's bound on a poll
    BlankThreshold,           \* OWNER_BLANK_THRESHOLD
    EverOwned      \* the keys that may have an owner

ASSUME KeyOwnersAssumption ==
    /\ Mode \in {"full", "lite", "off"}
    /\ HeavyInterval \in Nat \ {0} /\ CacheTTL \in Nat \ {0}
    /\ CbThreshold \in Nat \ {0} /\ CbCooldown \in Nat \ {0}
    /\ BlankThreshold \in Nat \ {0} /\ PollBound \in Nat \ {0}
    /\ EverOwned \subseteq Keys

VARIABLES
    pc,        \* "idle", "spending" or "walking" of every walker
    pollAge,   \* ticks since the loop read the time, 0 when it is idle
    heavy,     \* known_keys of _HEAVY: the labels it has and whether each has an owner
    heavyAge,  \* ticks since _HEAVY_TS, up to HeavyInterval
    shown,     \* does the latest entry of the loop carry the fields of _HEAVY?
    breaker,   \* _CB; left is what remains of the cooldown, negative once it is over
    cache,     \* _KEY_BUDGETS_CACHE, empty when it is None
    cacheAge,  \* ticks since _KEY_BUDGETS_TS, up to CacheTTL
    store,     \* the known_keys table
    well,      \* is the proxy well from now on?
    owned,     \* the keys that have an owner from then on
    \* History:
    blanks,    \* walks kept that found a key without an owner, up to BlankThreshold
    failRun,   \* failed spend pulls since the last good one, up to CbThreshold
    sinceFail  \* ticks since the last failed one began, up to CbCooldown

poll    == <<heavy, heavyAge, shown>>
budgets == <<cache, cacheAge>>
proxy   == <<well, owned>>
history == <<blanks, failRun, sinceFail>>
vars    == <<pc, pollAge, poll, breaker, budgets, store, proxy, history>>

Walkers == {"loop", "panel"}
Endpoints == {"spend", "key_list"}

\* A reading names some keys, TRUE for one with an owner.
Readings == {r \in UNION {[S -> BOOLEAN] : S \in SUBSET Keys} :
                \A k \in DOMAIN r : r[k] => k \in EverOwned}
Sat(n, top) == IF n < top THEN n ELSE top
Closed == [fails |-> 0, left |-> 0 - PollBound]
WellReading == [k \in Keys |-> k \in owned]

Init ==
    /\ pc = [w \in Walkers |-> "idle"] /\ pollAge = 0
    /\ heavy = << >> /\ heavyAge = HeavyInterval /\ shown = FALSE
    /\ breaker = [n \in Endpoints |-> Closed]
    /\ cache = << >> /\ cacheAge = CacheTTL
    /\ store = << >> /\ well = FALSE /\ owned = {}
    /\ blanks = [k \in EverOwned |-> 0] /\ failRun = 0 /\ sinceFail = CbCooldown

\* The proxy is well for good, and its keys change hands no more.
Settle ==
    /\ ~well /\ well' = TRUE /\ owned' \in SUBSET EverOwned
    /\ UNCHANGED <<pc, pollAge, poll, breaker, budgets, store, history>>

-----------------------------------------------------------------------------
\* _cb_open, at the time the poll read when it began.
Open(n) == breaker[n].left + pollAge > 0

\* Mutant of Recorded: the breaker opens when the threshold is met, never again.
RecordedOnce(b, ok, age) ==
    IF ok THEN Closed
    ELSE LET fails == Sat(b.fails + 1, CbThreshold + 1)
         IN  [fails |-> fails, left |-> IF fails = CbThreshold THEN CbCooldown - age ELSE b.left]

\* _cb_record with a time age ticks ago; failures are counted as far as they matter.
Recorded(b, ok, age) ==
    IF ok THEN Closed
    ELSE LET fails == Sat(b.fails + 1, CbThreshold + 1)
         IN  [fails |-> fails, left |-> IF fails >= CbThreshold THEN CbCooldown - age ELSE b.left]

\* Mutant of Upsert: a label the reading does not name is taken for an unowned one.
UpsertAbsent(reading) ==
    [k \in DOMAIN store \cup DOMAIN reading |->
        IF k \in DOMAIN reading /\ reading[k] THEN [owned |-> TRUE, streak |-> 0]
        ELSE IF k \notin DOMAIN store \/ ~store[k].owned THEN [owned |-> FALSE, streak |-> 0]
        ELSE [owned |-> store[k].streak + 1 < BlankThreshold, streak |-> store[k].streak + 1]]

\* Mutant of Upsert: an owner is filled in and never taken away.
UpsertFills(reading) ==
    [k \in DOMAIN store \cup DOMAIN reading |->
        IF k \in DOMAIN reading /\ reading[k] THEN [owned |-> TRUE, streak |-> 0]
        ELSE IF k \in DOMAIN store THEN store[k]
        ELSE [owned |-> FALSE, streak |-> 0]]

\* _upsert_known_with_owners: an owner is taken at once, and let go only after
\* BlankThreshold blank readings in a row; a label that is not named keeps its row.
Upsert(reading) ==
    [k \in DOMAIN store \cup DOMAIN reading |->
        IF k \notin DOMAIN reading THEN store[k]
        ELSE IF reading[k] THEN [owned |-> TRUE, streak |-> 0]
        ELSE IF k \notin DOMAIN store \/ ~store[k].owned THEN [owned |-> FALSE, streak |-> 0]
        ELSE [owned |-> store[k].streak + 1 < BlankThreshold, streak |-> store[k].streak + 1]]

-----------------------------------------------------------------------------
\* What key_budgets returned ends the heavy poll; the panels store it if it names
\* an owner at all, and the charts that ask for it too do not.
HeavyEnds(reading) ==
    /\ heavy' = reading /\ heavyAge' = Sat(pollAge, HeavyInterval) /\ shown' = TRUE
    /\ UNCHANGED store

PanelStores(reading) ==
    /\ \/ TRUE \in Range(reading) /\ store' = Upsert(reading)
       \/ UNCHANGED store
    /\ UNCHANGED poll

Return(w, reading) ==
    /\ pc' = [pc EXCEPT ![w] = "idle"]
    /\ pollAge' = IF w = "loop" THEN 0 ELSE pollAge
    /\ \/ w = "loop" /\ HeavyEnds(reading)
       \/ w = "panel" /\ PanelStores(reading)

\* key_budgets: a recent walk is served to everyone, otherwise /key/list is walked.
KeyBudgets(w) ==
    IF cacheAge < CacheTTL /\ cache # << >>
    THEN Return(w, cache)
    ELSE pc' = [pc EXCEPT ![w] = "walking"] /\ UNCHANGED <<pollAge, poll, store>>

\* sample: the proxy is down, refuses the key, or there is nothing new to ask.
LoopFails ==
    /\ pc["loop"] = "idle" /\ ~well /\ shown' = FALSE
    /\ UNCHANGED <<pc, pollAge, heavy, heavyAge, breaker, budgets, store, proxy, history>>

LoopReuses ==
    /\ pc["loop"] = "idle" /\ heavyAge < HeavyInterval /\ shown' = TRUE
    /\ UNCHANGED <<pc, pollAge, heavy, heavyAge, breaker, budgets, store, proxy, history>>

\* _heavy_sample: the pull is skipped when its breaker is open, or, if it is the
\* full one, when the host is loaded, and the walk is skipped with it ...
HeavySkipped ==
    /\ pc["loop"] = "idle" /\ heavyAge = HeavyInterval
    /\ Open("spend") \/ (Mode = "full" /\ ~well)
    /\ HeavyEnds(<< >>)
    /\ UNCHANGED <<pc, pollAge, breaker, budgets, proxy, history>>

\* ... otherwise the logs are pulled.
HeavyPulls ==
    /\ pc["loop"] = "idle" /\ heavyAge = HeavyInterval /\ ~Open("spend")
    /\ pc' = [pc EXCEPT !["loop"] = "spending"]
    /\ UNCHANGED <<pollAge, poll, breaker, budgets, store, proxy, history>>

\* The lite pull never raises: its calls may all fail and a success is recorded.
\* The host's load is looked at again before the walk.
PullEnds(ok, shed) ==
    /\ pc["loop"] = "spending"
    /\ ~well \/ (ok /\ ~shed)
    /\ LET spend == Recorded(breaker["spend"], ok \/ Mode = "lite", pollAge)
       IN  /\ breaker' = [breaker EXCEPT !["spend"] = spend]
           /\ IF Mode # "off" /\ ~shed /\ spend.left + pollAge <= 0 /\ ~Open("key_list")
              THEN KeyBudgets("loop")
              ELSE Return("loop", << >>)
    /\ failRun' = IF ok THEN 0 ELSE Sat(failRun + 1, CbThreshold)
    /\ sinceFail' = IF ok THEN sinceFail ELSE Sat(pollAge, CbCooldown)
    /\ UNCHANGED <<budgets, proxy, blanks>>

\* The budgets panel, the teams board and the charts by user: no breaker is asked.
PanelOpens ==
    /\ pc["panel"] = "idle" /\ KeyBudgets("panel")
    /\ UNCHANGED <<breaker, budgets, proxy, history>>

-----------------------------------------------------------------------------
\* The first page fails, which counts unless the key lacks the scope for it, or
\* there is no key at all: what was found last time is good enough.
WalkFails(w, recorded) ==
    /\ pc[w] = "walking" /\ ~well
    /\ breaker' = IF recorded THEN [breaker EXCEPT !["key_list"] = Recorded(@, FALSE, 0)]
                  ELSE breaker
    /\ Return(w, cache)
    /\ UNCHANGED <<budgets, proxy, history>>

\* The walk raises: the heavy poll records it and has no keys, the request fails.
WalkRaises(w) ==
    /\ pc[w] = "walking" /\ ~well
    /\ breaker' = IF w = "loop" THEN [breaker EXCEPT !["key_list"] = Recorded(@, FALSE, 0)]
                  ELSE breaker
    /\ Return(w, << >>)
    /\ UNCHANGED <<budgets, proxy, history>>

\* A walk that was cut short and found less than the one before it.
Partial(rows, complete) ==
    ~complete /\ Cardinality(DOMAIN rows) < Cardinality(DOMAIN cache)

\* The walk returns some rows; the owners are as the proxy names them.
WalkReturns(w, rows, complete) ==
    /\ pc[w] = "walking"
    /\ ~well \/ (rows = WellReading /\ complete)
    /\ IF Partial(rows, complete)
       THEN Return(w, cache) /\ UNCHANGED <<breaker, budgets, blanks>>
       ELSE /\ cache' = rows /\ cacheAge' = 0
            /\ breaker' = [breaker EXCEPT !["key_list"] = Recorded(@, TRUE, 0)]
            /\ blanks' = [k \in EverOwned |-> IF k \in DOMAIN rows /\ ~rows[k]
                                         THEN Sat(blanks[k] + 1, BlankThreshold) ELSE blanks[k]]
            /\ Return(w, rows)
    /\ UNCHANGED <<proxy, failRun, sinceFail>>

\* The loop's wait_for gives up: nothing was recorded, and _HEAVY is as old as ever.
LoopTimesOut ==
    /\ pc["loop"] # "idle" /\ pollAge = PollBound /\ ~well
    /\ pc' = [pc EXCEPT !["loop"] = "idle"] /\ pollAge' = 0 /\ shown' = FALSE
    /\ UNCHANGED <<heavy, heavyAge, breaker, budgets, store, proxy, history>>

\* The sampling loop: _persist_tick writes the keys of the latest entry, at every
\* tick, whether the loop has asked for them since or not.  A poll is not let
\* run past PollBound ticks.
Tick ==
    /\ pc["loop"] # "idle" => pollAge < PollBound
    /\ pollAge' = IF pc["loop"] = "idle" THEN 0 ELSE pollAge + 1
    /\ store' = IF shown THEN Upsert(heavy) ELSE store
    /\ heavyAge' = Sat(heavyAge + 1, HeavyInterval)
    /\ cacheAge' = Sat(cacheAge + 1, CacheTTL)
    /\ breaker' = [n \in Endpoints |->
                     [breaker[n] EXCEPT !.left = IF @ > 0 - PollBound THEN @ - 1 ELSE @]]
    /\ sinceFail' = Sat(sinceFail + 1, CbCooldown)
    /\ UNCHANGED <<pc, heavy, shown, cache, proxy, blanks, failRun>>

Walk(w) ==
    \/ \E recorded \in BOOLEAN : WalkFails(w, recorded)
    \/ WalkRaises(w)
    \/ \E rows \in Readings \ {<< >>}, complete \in BOOLEAN : WalkReturns(w, rows, complete)

LoopStep ==
    \/ LoopFails \/ LoopReuses \/ HeavySkipped \/ HeavyPulls \/ LoopTimesOut
    \/ \E ok, shed \in BOOLEAN : PullEnds(ok, shed)
    \/ Walk("loop")

Next == LoopStep \/ PanelOpens \/ Walk("panel") \/ Tick \/ Settle

Spec == Init /\ [][Next]_vars

\* Both loops are tasks of their own and every request has its timeout; nobody
\* has to open the panel.
FairSpec == Spec /\ WF_vars(LoopStep) /\ WF_vars(Walk("panel")) /\ WF_vars(Tick)

-----------------------------------------------------------------------------
TypeOK ==
    /\ pc["loop"] \in {"idle", "spending", "walking"}
    /\ pc["panel"] \in {"idle", "walking"}
    /\ pollAge \in 0..PollBound
    /\ heavy \in Readings /\ heavyAge \in 0..HeavyInterval /\ shown \in BOOLEAN
    /\ breaker \in [Endpoints -> [fails : 0..(CbThreshold + 1), left : (0 - PollBound)..CbCooldown]]
    /\ cache \in Readings /\ cacheAge \in 0..CacheTTL
    /\ DOMAIN store \subseteq Keys
    /\ \A k \in DOMAIN store : store[k] \in [owned : BOOLEAN, streak : 0..BlankThreshold]
    /\ well \in BOOLEAN /\ owned \subseteq EverOwned
    /\ blanks \in [EverOwned -> 0..BlankThreshold]
    /\ failRun \in 0..CbThreshold /\ sinceFail \in 0..CbCooldown

Owners == {k \in DOMAIN store : store[k].owned}

\* A proxy that has failed CbThreshold pulls in a row is asked for its logs once
\* per cooldown, until one pull succeeds (litellm.py:332-355), in full mode.
OneProbePerCooldown ==
    [][Mode = "full" /\ pc["loop"] = "idle" /\ pc'["loop"] = "spending"
        => failRun < CbThreshold \/ sinceFail = CbCooldown]_vars

\* A key loses its owner only after a walk really found it without one: neither a
\* failed nor a partial walk that does not name the key, nor the cache that stands
\* in for it, takes the owner away (db.py:733-787, litellm.py:1586-1602).  The types
\* hold, too.
OwnerNotLostUnread == []TypeOK /\ [][\A k \in Owners \ Owners' : blanks'[k] > 0]_vars

\* Once the proxy is well the table ends up with its owners, whatever the breakers,
\* the two caches and the streaks were left at (litellm.py:255-355, 1424-1602,
\* db.py:733-787).
OwnersConverge ==
    <>[](well => DOMAIN store = Keys /\ Owners = owned)

\* OWNER_BLANK_THRESHOLD is a number of "Consecutive successful polls that must all
\* report a key's owner as blank" (db.py:726-727): an owner is not lost on fewer.
OwnerRidesOutBlips == [][\A k \in Owners \ Owners' : blanks[k] >= BlankThreshold]_vars
=============================================================================
