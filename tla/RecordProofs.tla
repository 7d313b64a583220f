--------------------------- MODULE RecordProofs -----------------------------
(***************************************************************************)
(* What a tick records beside its samples: who owns the keys, and what     *)
(* became of each backend.  For any keys, intervals and thresholds, and    *)
(* whatever the proxy does: the spend logs are asked for once per cooldown *)
(* after enough failures, and a key keeps its owner until a walk has       *)
(* really found it without one.  For any heartbeat, retention and          *)
(* downtimes: an event that was lost is mended, and the lane of a backend  *)
(* tells what was seen of it.                                              *)
(***************************************************************************)
EXTENDS KeyOwners, Timeline, FiniteSetTheorems, WellFoundedInduction, TLAPS

\* The blank readings that are kept somewhere were found by a walk.
Found(reading) == \A k \in EverOwned : k \in DOMAIN reading /\ ~reading[k] => blanks[k] > 0

\* A loop that is idle has no age.
PlaceInv ==
    /\ pc \in [Walkers -> {"idle", "spending", "walking"}] /\ pc["panel"] # "spending"
    /\ pollAge \in 0..PollBound
    /\ pc["loop"] = "idle" => pollAge = 0

ReadInv ==
    /\ heavy \in Readings /\ heavyAge \in 0..HeavyInterval /\ shown \in BOOLEAN
    /\ cache \in Readings /\ cacheAge \in 0..CacheTTL
    /\ blanks \in [EverOwned -> 0..BlankThreshold]
    /\ Found(heavy) /\ Found(cache)

\* An owner that is held has blank readings to go.
Row(r) == /\ r \in [owned : BOOLEAN, streak : 0..BlankThreshold]
          /\ r.owned => r.streak < BlankThreshold

StoreInv ==
    /\ DOMAIN store \subseteq Keys
    /\ \A k \in DOMAIN store : Row(store[k]) /\ (store[k].owned => k \in EverOwned)

\* The breaker of the logs remembers the failures in a row and, once it has opened,
\* stays open at least until the cooldown is over.
BreakerInv ==
    /\ breaker \in [Endpoints -> [fails : 0..(CbThreshold + 1), left : (0 - PollBound)..CbCooldown]]
    /\ failRun \in 0..CbThreshold /\ sinceFail \in 0..CbCooldown
    /\ Mode = "full" =>
          /\ failRun = Sat(breaker["spend"].fails, CbThreshold)
          /\ failRun = CbThreshold =>
                sinceFail = CbCooldown \/ breaker["spend"].left + sinceFail >= CbCooldown

ProxyInv == well \in BOOLEAN /\ owned \subseteq EverOwned

IInv == PlaceInv /\ ReadInv /\ StoreInv /\ BreakerInv /\ ProxyInv

-----------------------------------------------------------------------------
LEMMA SatRange ==
  ASSUME NEW n \in Nat, NEW top \in Nat
  PROVE  Sat(n, top) \in 0..top /\ (n > 0 /\ top > 0 => Sat(n, top) > 0)
BY DEF Sat

LEMMA EmptyReading == << >> \in Readings /\ DOMAIN << >> = {} /\ Found(<< >>)
<1>1. << >> \in [{} -> BOOLEAN] /\ DOMAIN << >> = {}
  OBVIOUS
<1> QED
  BY <1>1 DEF Readings, Found

LEMMA ReadingTyped ==
  ASSUME NEW r \in Readings
  PROVE  /\ DOMAIN r \subseteq Keys
         /\ \A k \in DOMAIN r : r[k] \in BOOLEAN /\ (r[k] => k \in EverOwned)
BY DEF Readings

\* An owner is let go only on a reading that names the key without one
\* (db.py:733-787).
LEMMA UpsertKeeps ==
  ASSUME StoreInv, NEW r \in Readings
  PROVE  LET up == Upsert(r)
         IN  /\ DOMAIN up \subseteq Keys
             /\ \A k \in DOMAIN up : Row(up[k]) /\ (up[k].owned => k \in EverOwned)
             /\ \A k \in Owners : \/ k \in DOMAIN up /\ up[k].owned
                                  \/ k \in EverOwned /\ k \in DOMAIN r /\ ~r[k]
<1> DEFINE up == Upsert(r)
<1>1. DOMAIN up = DOMAIN store \cup DOMAIN r
  BY DEF Upsert
<1>2. BlankThreshold \in Nat \ {0}
  BY KeyOwnersAssumption DEF KeyOwnersAssumption
<1>3. ASSUME NEW k \in DOMAIN up
      PROVE  /\ Row(up[k]) /\ (up[k].owned => k \in EverOwned)
             /\ k \in Owners => up[k].owned \/ (k \in DOMAIN r /\ ~r[k])
  <2>1. CASE k \notin DOMAIN r
    <3>1. up[k] = store[k] /\ k \in DOMAIN store
      BY <1>1, <2>1 DEF Upsert
    <3> QED
      BY <3>1 DEF StoreInv, Owners
  <2>2. CASE k \in DOMAIN r /\ r[k]
    <3>1. up[k] = [owned |-> TRUE, streak |-> 0]
      BY <1>1, <2>2 DEF Upsert
    <3> QED
      BY <1>2, <2>2, <3>1, ReadingTyped DEF Row
  <2>3. CASE k \in DOMAIN r /\ ~r[k] /\ (k \notin DOMAIN store \/ ~store[k].owned)
    <3>1. up[k] = [owned |-> FALSE, streak |-> 0]
      BY <1>1, <2>3 DEF Upsert
    <3> QED
      BY <1>2, <2>3, <3>1 DEF Row
  <2>4. CASE k \in DOMAIN r /\ ~r[k] /\ k \in DOMAIN store /\ store[k].owned
    <3>1. up[k] = [owned |-> store[k].streak + 1 < BlankThreshold, streak |-> store[k].streak + 1]
      BY <1>1, <2>4 DEF Upsert
    <3>2. Row(store[k]) /\ k \in EverOwned
      BY <2>4 DEF StoreInv
    <3>3. store[k].streak \in Nat /\ store[k].streak < BlankThreshold
      BY <1>2, <2>4, <3>2 DEF Row
    <3>4. store[k].streak + 1 \in 0..BlankThreshold
      BY <1>2, <3>3
    <3>5. CASE store[k].streak + 1 < BlankThreshold
      <4>1. (store[k].streak + 1 < BlankThreshold) = TRUE
        BY <3>5, Zenon
      <4>2. up[k] = [owned |-> TRUE, streak |-> store[k].streak + 1]
        BY <3>1, <4>1, Zenon
      <4> QED
        BY <2>4, <3>2, <3>4, <3>5, <4>2 DEF Row
    <3>6. CASE ~(store[k].streak + 1 < BlankThreshold)
      <4>1. (store[k].streak + 1 < BlankThreshold) = FALSE
        BY <3>3, <3>6, <1>2
      <4>2. up[k] = [owned |-> FALSE, streak |-> store[k].streak + 1]
        BY <3>1, <4>1, Zenon
      <4> QED
        BY <2>4, <3>2, <3>4, <4>2 DEF Row
    <3> QED
      BY <3>5, <3>6
  <2> QED
    BY <2>1, <2>2, <2>3, <2>4
<1>4. \A k \in Owners : k \in DOMAIN up /\ k \in EverOwned
  BY <1>1 DEF Owners, StoreInv
<1>5. DOMAIN up \subseteq Keys
  BY <1>1, ReadingTyped DEF StoreInv
<1> HIDE DEF up
<1>6. QED
  BY <1>3, <1>4, <1>5 DEF up

-----------------------------------------------------------------------------
\* What a walker does that comes back with a reading (or goes on to walk).
Back(r) == heavy' \in {heavy, r} /\ heavyAge' \in 0..HeavyInterval /\ shown' \in BOOLEAN

LEMMA ReturnStep ==
  ASSUME PlaceInv, ReadInv, NEW w \in Walkers, NEW r, Return(w, r)
  PROVE  PlaceInv' /\ Back(r) /\ store' \in {store, Upsert(r)}
<1>1. /\ pc' = [pc EXCEPT ![w] = "idle"] /\ pollAge' = IF w = "loop" THEN 0 ELSE pollAge
      /\ HeavyInterval \in Nat /\ PollBound \in Nat
  BY KeyOwnersAssumption DEF Return, KeyOwnersAssumption
<1>2. PlaceInv'
  BY <1>1 DEF PlaceInv, Walkers
<1>3. CASE HeavyEnds(r)
  <2>1. Sat(pollAge, HeavyInterval) \in 0..HeavyInterval
    BY <1>1, SatRange DEF PlaceInv
  <2> QED
    BY <1>2, <1>3, <2>1 DEF HeavyEnds, Back
<1>4. CASE PanelStores(r)
  BY <1>2, <1>4 DEF PanelStores, Back, poll, ReadInv
<1> QED
  BY <1>3, <1>4 DEF Return

LEMMA KeyBudgetsStep ==
  ASSUME PlaceInv, ReadInv, NEW w \in Walkers, KeyBudgets(w), w = "loop" => pc["loop"] # "idle"
  PROVE  PlaceInv' /\ Back(cache) /\ store' \in {store, Upsert(cache)}
<1>1. CASE Return(w, cache)
  BY <1>1, ReturnStep
<1>2. CASE pc' = [pc EXCEPT ![w] = "walking"] /\ UNCHANGED <<pollAge, poll, store>>
  BY <1>2 DEF PlaceInv, Walkers, Back, ReadInv, poll
<1> QED
  BY <1>1, <1>2 DEF KeyBudgets

\* What a step does to the table: nothing, or one reading whose blanks were found.
Told(r) == r \in Readings /\ \A k \in EverOwned : k \in DOMAIN r /\ ~r[k] => blanks'[k] > 0

LEMMA StoreStep ==
  ASSUME StoreInv, NEW r, Told(r), store' \in {store, Upsert(r)}
  PROVE  StoreInv' /\ \A k \in Owners \ Owners' : blanks'[k] > 0
<1>1. CASE store' = store
  BY <1>1 DEF StoreInv, Owners
<1>2. CASE store' = Upsert(r)
  <2>1. /\ r \in Readings
        /\ \A k \in EverOwned : k \in DOMAIN r /\ ~r[k] => blanks'[k] > 0
    BY DEF Told
  <2>2. /\ DOMAIN store' \subseteq Keys
        /\ \A k \in DOMAIN store' : Row(store'[k]) /\ (store'[k].owned => k \in EverOwned)
        /\ \A k \in Owners : \/ k \in DOMAIN store' /\ store'[k].owned
                             \/ k \in EverOwned /\ k \in DOMAIN r /\ ~r[k]
    BY <1>2, <2>1, UpsertKeeps
  <2> QED
    BY <2>1, <2>2 DEF StoreInv, Owners
<1> QED
  BY <1>1, <1>2

-----------------------------------------------------------------------------
\* What every step does, with the reading it passes on.
Does(r) == /\ PlaceInv' /\ ReadInv' /\ BreakerInv' /\ ProxyInv'
           /\ Told(r) /\ store' \in {store, Upsert(r)}

Breaker == [fails : 0..(CbThreshold + 1), left : (0 - PollBound)..CbCooldown]

LEMMA Constants ==
  /\ HeavyInterval \in Nat \ {0} /\ CacheTTL \in Nat \ {0} /\ BlankThreshold \in Nat \ {0}
  /\ CbThreshold \in Nat \ {0} /\ CbCooldown \in Nat \ {0} /\ PollBound \in Nat \ {0}
BY KeyOwnersAssumption DEF KeyOwnersAssumption

LEMMA RecordedTyped ==
  ASSUME NEW b \in Breaker, NEW ok, NEW age \in 0..PollBound
  PROVE  Recorded(b, ok, age) \in Breaker
<1>1. CASE ok
  BY <1>1, Constants DEF Recorded, Closed, Breaker
<1>2. CASE ~ok
  <2> DEFINE fails == Sat(b.fails + 1, CbThreshold + 1)
  <2>1. b.fails + 1 \in Nat /\ CbThreshold + 1 \in Nat /\ b.left \in (0 - PollBound)..CbCooldown
    BY Constants DEF Breaker
  <2>2. fails \in 0..(CbThreshold + 1)
    BY <2>1, SatRange
  <2>3. CbCooldown - age \in (0 - PollBound)..CbCooldown
    BY Constants
  <2>4. Recorded(b, ok, age) = [fails |-> fails,
                                left |-> IF fails >= CbThreshold THEN CbCooldown - age ELSE b.left]
    BY <1>2 DEF Recorded
  <2> HIDE DEF fails
  <2> QED
    BY <2>1, <2>2, <2>3, <2>4 DEF Breaker
<1> QED
  BY <1>1, <1>2

\* The readings in hand, and nothing, are such that their blanks were found.
LEMMA ToldReadings ==
  ASSUME ReadInv, blanks' = blanks
  PROVE  Told(heavy) /\ Told(cache) /\ Told(<< >>)
<1>1. DOMAIN << >> = {} /\ << >> \in Readings
  BY EmptyReading
<1> QED
  BY <1>1 DEF ReadInv, Found, Told

LEMMA ReadStep ==
  ASSUME ReadInv, NEW r, Back(r), Told(r), UNCHANGED <<budgets, blanks>>
  PROVE  ReadInv'
<1>1. /\ heavy' \in {heavy, r} /\ heavyAge' \in 0..HeavyInterval /\ shown' \in BOOLEAN
      /\ cache' = cache /\ cacheAge' = cacheAge /\ blanks' = blanks
      /\ r \in Readings /\ Told(heavy) /\ Told(cache)
  BY ToldReadings DEF Back, budgets, Told
<1>2. Found(heavy)' /\ Found(cache)'
  BY <1>1 DEF Found, Told
<1> QED
  BY <1>1, <1>2 DEF ReadInv

\* The breaker of the walks is not that of the logs.
LEMMA OtherBreaker ==
  ASSUME BreakerInv, NEW b \in Breaker, breaker' = [breaker EXCEPT !["key_list"] = b],
         UNCHANGED <<failRun, sinceFail>>
  PROVE  BreakerInv'
<1>1. breaker \in [Endpoints -> Breaker]
  BY DEF BreakerInv, Breaker
<1>2. breaker' \in [Endpoints -> Breaker] /\ breaker'["spend"] = breaker["spend"]
  BY <1>1 DEF Endpoints
<1> QED
  BY <1>2 DEF BreakerInv, Breaker

LEMMA SameBreaker ==
  ASSUME BreakerInv, UNCHANGED <<breaker, failRun, sinceFail>>
  PROVE  BreakerInv'
BY DEF BreakerInv

LEMMA SameProxy == ASSUME ProxyInv, UNCHANGED proxy PROVE ProxyInv'
BY DEF ProxyInv, proxy

\* A failed pull is counted, and dated by when its poll began, like the cooldown.
LEMMA SpendRecorded ==
  ASSUME BreakerInv, PlaceInv, NEW ok \in BOOLEAN,
         breaker' = [breaker EXCEPT !["spend"] =
                        Recorded(breaker["spend"], ok \/ Mode = "lite", pollAge)],
         failRun' = IF ok THEN 0 ELSE Sat(failRun + 1, CbThreshold),
         sinceFail' = IF ok THEN sinceFail ELSE Sat(pollAge, CbCooldown)
  PROVE  BreakerInv'
<1> DEFINE b == breaker["spend"]
           up == Recorded(b, ok \/ Mode = "lite", pollAge)
<1>1. /\ breaker \in [Endpoints -> Breaker] /\ b \in Breaker /\ pollAge \in 0..PollBound
      /\ failRun \in 0..CbThreshold /\ sinceFail \in 0..CbCooldown
  BY DEF BreakerInv, Breaker, Endpoints, PlaceInv
<1>2. up \in Breaker
  BY <1>1, RecordedTyped
<1>3. breaker' \in [Endpoints -> Breaker] /\ breaker'["spend"] = up
  <2> HIDE DEF up
  <2> QED
    BY <1>1, <1>2 DEF Endpoints, up
<1>4. failRun' \in 0..CbThreshold /\ sinceFail' \in 0..CbCooldown
  BY <1>1, Constants DEF Sat
<1>5. ASSUME Mode = "full"
      PROVE  /\ failRun' = Sat(up.fails, CbThreshold)
             /\ failRun' = CbThreshold =>
                   sinceFail' = CbCooldown \/ up.left + sinceFail' >= CbCooldown
  <2>1. CASE ok
    <3>1. up = Closed
      BY <2>1 DEF Recorded
    <3> QED
      BY <2>1, <3>1, Constants DEF Closed, Sat
  <2>2. CASE ~ok
    <3> DEFINE fails == Sat(b.fails + 1, CbThreshold + 1)
    <3>1. up = [fails |-> fails, left |-> IF fails >= CbThreshold THEN CbCooldown - pollAge ELSE b.left]
      BY <1>5, <2>2 DEF Recorded
    <3>2. b.fails \in 0..(CbThreshold + 1) /\ failRun = Sat(b.fails, CbThreshold)
      BY <1>1, <1>5 DEF Breaker, BreakerInv
    <3>3. /\ fails \in 0..(CbThreshold + 1)
          /\ Sat(failRun + 1, CbThreshold) = Sat(fails, CbThreshold)
          /\ Sat(fails, CbThreshold) = CbThreshold => fails >= CbThreshold
      BY <3>2, Constants DEF Sat
    <3>4. up.fails = fails /\ (fails >= CbThreshold => up.left = CbCooldown - pollAge)
      BY <3>1
    <3>5. failRun' = Sat(fails, CbThreshold) /\ sinceFail' = Sat(pollAge, CbCooldown)
      BY <2>2, <3>3
    <3>6. sinceFail' = CbCooldown \/ (sinceFail' = pollAge /\ pollAge \in Int)
      BY <1>1, <3>5 DEF Sat
    <3> HIDE DEF fails, up
    <3>7. ASSUME failRun' = CbThreshold
          PROVE  sinceFail' = CbCooldown \/ up.left + sinceFail' >= CbCooldown
      <4>1. up.left = CbCooldown - pollAge
        BY <3>3, <3>4, <3>5, <3>7
      <4> QED
        BY <1>1, <3>6, <4>1, Constants
    <3> QED
      BY <3>4, <3>5, <3>7
  <2> QED
    BY <2>1, <2>2
<1> HIDE DEF up
<1> QED
  BY <1>3, <1>4, <1>5 DEF BreakerInv, Breaker

-----------------------------------------------------------------------------
\* Steps of the loop that ask nothing of the list of keys.
LEMMA QuietStep ==
  ASSUME IInv, LoopFails \/ LoopReuses \/ HeavySkipped \/ HeavyPulls \/ LoopTimesOut
  PROVE  Does(heavy) \/ Does(<< >>)
<1>1. PlaceInv /\ ReadInv /\ StoreInv /\ BreakerInv /\ ProxyInv
  BY DEF IInv
<1>2. /\ UNCHANGED <<breaker, budgets, store, proxy>> /\ blanks' = blanks
      /\ failRun' = failRun /\ sinceFail' = sinceFail
  BY DEF LoopFails, LoopReuses, HeavySkipped, HeavyPulls, LoopTimesOut, HeavyEnds, history
<1>3. BreakerInv' /\ ProxyInv' /\ Told(heavy) /\ Told(<< >>)
  BY <1>1, <1>2, SameBreaker, SameProxy, ToldReadings
<1>4. PlaceInv'
  <2>1. CASE HeavySkipped \/ LoopFails \/ LoopReuses
    BY <1>1, <2>1 DEF HeavySkipped, LoopFails, LoopReuses, PlaceInv
  <2>2. CASE HeavyPulls
    BY <1>1, <2>2, Constants DEF HeavyPulls, PlaceInv, Walkers
  <2>3. CASE LoopTimesOut
    BY <1>1, <2>3, Constants DEF LoopTimesOut, PlaceInv, Walkers
  <2> QED
    BY <2>1, <2>2, <2>3
<1>5. Back(heavy) \/ Back(<< >>)
  <2>1. CASE HeavySkipped
    <3>1. Sat(pollAge, HeavyInterval) \in 0..HeavyInterval
      BY <1>1, Constants, SatRange DEF PlaceInv
    <3> QED
      BY <2>1, <3>1 DEF HeavySkipped, HeavyEnds, Back
  <2>2. CASE ~HeavySkipped
    BY <1>1, <2>2 DEF LoopFails, LoopReuses, HeavyPulls, LoopTimesOut, Back, ReadInv, poll
  <2> QED
    BY <2>1, <2>2
<1>6. ReadInv'
  BY <1>1, <1>2, <1>3, <1>5, ReadStep
<1> QED
  BY <1>2, <1>3, <1>4, <1>6 DEF Does

\* The end of a pull, and what comes of the list after it.
LEMMA PullStep ==
  ASSUME IInv, NEW ok \in BOOLEAN, NEW shed \in BOOLEAN, PullEnds(ok, shed)
  PROVE  Does(cache) \/ Does(<< >>)
<1>1. PlaceInv /\ ReadInv /\ StoreInv /\ BreakerInv /\ ProxyInv
  BY DEF IInv
<1>2. UNCHANGED <<budgets, proxy>> /\ blanks' = blanks /\ pc["loop"] = "spending"
  BY DEF PullEnds
<1>3. ProxyInv' /\ Told(cache) /\ Told(<< >>)
  BY <1>1, <1>2, SameProxy, ToldReadings
<1>4. BreakerInv'
  BY <1>1, SpendRecorded DEF PullEnds
<1>5. CASE KeyBudgets("loop")
  <2>1. PlaceInv' /\ Back(cache) /\ store' \in {store, Upsert(cache)}
    BY <1>1, <1>2, <1>5, KeyBudgetsStep DEF Walkers
  <2>2. ReadInv'
    BY <1>1, <1>2, <1>3, <2>1, ReadStep
  <2> QED
    BY <1>3, <1>4, <2>1, <2>2 DEF Does
<1>6. CASE Return("loop", << >>)
  <2>1. PlaceInv' /\ Back(<< >>) /\ store' \in {store, Upsert(<< >>)}
    BY <1>1, <1>6, ReturnStep DEF Walkers
  <2>2. ReadInv'
    BY <1>1, <1>2, <1>3, <2>1, ReadStep
  <2> QED
    BY <1>3, <1>4, <2>1, <2>2 DEF Does
<1> QED
  BY <1>5, <1>6 DEF PullEnds

LEMMA PanelStep == ASSUME IInv, PanelOpens PROVE Does(cache)
<1>1. PlaceInv /\ ReadInv /\ StoreInv /\ BreakerInv /\ ProxyInv
  BY DEF IInv
<1>2. KeyBudgets("panel") /\ UNCHANGED <<breaker, budgets, proxy, blanks, failRun, sinceFail>>
  BY DEF PanelOpens, history
<1>3. PlaceInv' /\ Back(cache) /\ store' \in {store, Upsert(cache)}
  BY <1>1, <1>2, KeyBudgetsStep DEF Walkers
<1>4. BreakerInv' /\ ProxyInv' /\ Told(cache)
  BY <1>1, <1>2, SameBreaker, SameProxy, ToldReadings
<1>5. ReadInv'
  BY <1>1, <1>2, <1>3, <1>4, ReadStep
<1> QED
  BY <1>3, <1>4, <1>5 DEF Does

\* A walk that fails at its first page, or raises.
LEMMA FailedWalkStep ==
  ASSUME IInv, NEW w \in Walkers, (\E recorded \in BOOLEAN : WalkFails(w, recorded)) \/ WalkRaises(w)
  PROVE  Does(cache) \/ Does(<< >>)
<1>1. PlaceInv /\ ReadInv /\ StoreInv /\ BreakerInv /\ ProxyInv
  BY DEF IInv
<1>2. /\ UNCHANGED <<budgets, proxy, blanks, failRun, sinceFail>>
      /\ Return(w, cache) \/ Return(w, << >>)
      /\ \/ breaker' = breaker
         \/ breaker' = [breaker EXCEPT !["key_list"] = Recorded(breaker["key_list"], FALSE, 0)]
  BY DEF WalkFails, WalkRaises, history
<1>3. ProxyInv' /\ Told(cache) /\ Told(<< >>)
  BY <1>1, <1>2, SameProxy, ToldReadings
<1>4. BreakerInv'
  <2>1. breaker["key_list"] \in Breaker /\ 0 \in 0..PollBound
    BY <1>1, Constants DEF BreakerInv, Breaker, Endpoints
  <2>2. Recorded(breaker["key_list"], FALSE, 0) \in Breaker
    BY <2>1, RecordedTyped
  <2> QED
    BY <1>1, <1>2, <2>2, SameBreaker, OtherBreaker
<1>5. CASE Return(w, cache)
  <2>1. PlaceInv' /\ Back(cache) /\ store' \in {store, Upsert(cache)}
    BY <1>1, <1>5, ReturnStep
  <2>2. ReadInv'
    BY <1>1, <1>2, <1>3, <2>1, ReadStep
  <2> QED
    BY <1>3, <1>4, <2>1, <2>2 DEF Does
<1>6. CASE Return(w, << >>)
  <2>1. PlaceInv' /\ Back(<< >>) /\ store' \in {store, Upsert(<< >>)}
    BY <1>1, <1>6, ReturnStep
  <2>2. ReadInv'
    BY <1>1, <1>2, <1>3, <2>1, ReadStep
  <2> QED
    BY <1>3, <1>4, <2>1, <2>2 DEF Does
<1> QED
  BY <1>2, <1>5, <1>6

\* A walk that returns rows; those that are kept count their blanks.
LEMMA WalkStep ==
  ASSUME IInv, NEW w \in Walkers, NEW rows \in Readings, NEW complete \in BOOLEAN,
         WalkReturns(w, rows, complete)
  PROVE  Does(cache) \/ Does(rows)
<1>1. PlaceInv /\ ReadInv /\ StoreInv /\ BreakerInv /\ ProxyInv
  BY DEF IInv
<1>2. UNCHANGED <<proxy, failRun, sinceFail>>
  BY DEF WalkReturns
<1>3. ProxyInv'
  BY <1>1, <1>2, SameProxy
<1>4. CASE Partial(rows, complete)
  <2>1. Return(w, cache) /\ UNCHANGED <<breaker, budgets, blanks>>
    BY <1>4 DEF WalkReturns
  <2>2. PlaceInv' /\ Back(cache) /\ store' \in {store, Upsert(cache)}
    BY <1>1, <2>1, ReturnStep
  <2>3. BreakerInv' /\ Told(cache)
    BY <1>1, <1>2, <2>1, SameBreaker, ToldReadings
  <2>4. ReadInv'
    BY <1>1, <2>1, <2>2, <2>3, ReadStep
  <2> QED
    BY <1>3, <2>2, <2>3, <2>4 DEF Does
<1>5. CASE ~Partial(rows, complete)
  <2>1. /\ cache' = rows /\ cacheAge' = 0 /\ Return(w, rows)
        /\ breaker' = [breaker EXCEPT !["key_list"] = Closed]
        /\ blanks' = [k \in EverOwned |-> IF k \in DOMAIN rows /\ ~rows[k]
                                          THEN Sat(blanks[k] + 1, BlankThreshold) ELSE blanks[k]]
    BY <1>5 DEF WalkReturns, Recorded
  <2>2. PlaceInv' /\ Back(rows) /\ store' \in {store, Upsert(rows)}
    BY <1>1, <2>1, ReturnStep
  <2>3. BreakerInv'
    <3>1. Closed \in Breaker
      BY Constants DEF Closed, Breaker
    <3> QED
      BY <1>1, <1>2, <2>1, <3>1, OtherBreaker
  <2>4. ASSUME NEW k \in EverOwned
        PROVE  /\ blanks'[k] \in 0..BlankThreshold
               /\ blanks[k] > 0 => blanks'[k] > 0
               /\ k \in DOMAIN rows /\ ~rows[k] => blanks'[k] > 0
    <3>1. blanks[k] \in 0..BlankThreshold
      BY <1>1 DEF ReadInv
    <3>2. Sat(blanks[k] + 1, BlankThreshold) \in 0..BlankThreshold
          /\ Sat(blanks[k] + 1, BlankThreshold) > 0
      BY <3>1, Constants DEF Sat
    <3> QED
      BY <2>1, <3>1, <3>2
  <2>5. Told(rows) /\ Told(heavy)
    BY <1>1, <2>4 DEF Told, ReadInv, Found
  <2>6. Found(heavy)' /\ Found(cache)'
    BY <2>1, <2>2, <2>5 DEF Told, Found, Back
  <2>7. ReadInv'
    BY <1>1, <2>1, <2>2, <2>4, <2>6, Constants DEF ReadInv, Back
  <2> QED
    BY <1>3, <2>2, <2>3, <2>5, <2>7 DEF Does
<1> QED
  BY <1>4, <1>5

\* The sampling loop writes the latest readings; everything grows older.
LEMMA TickStep == ASSUME IInv, Tick PROVE Does(heavy)
<1>1. PlaceInv /\ ReadInv /\ StoreInv /\ BreakerInv /\ ProxyInv
  BY DEF IInv
<1>2. blanks' = blanks /\ failRun' = failRun /\ UNCHANGED <<pc, heavy, shown, cache, proxy>>
  BY DEF Tick
<1>3. ProxyInv' /\ Told(heavy) /\ Told(cache)
  BY <1>1, <1>2, SameProxy, ToldReadings
<1>4. PlaceInv'
  BY <1>1, <1>2, Constants DEF Tick, PlaceInv
<1>5. ReadInv'
  <2>1. heavyAge' \in 0..HeavyInterval /\ cacheAge' \in 0..CacheTTL
    BY <1>1, Constants DEF Tick, ReadInv, Sat
  <2>2. Found(heavy)' /\ Found(cache)'
    BY <1>2, <1>3 DEF Told, Found
  <2> QED
    BY <1>1, <1>2, <2>1, <2>2 DEF ReadInv
<1>6. BreakerInv'
  <2> DEFINE older(b) == [b EXCEPT !.left = IF @ > 0 - PollBound THEN @ - 1 ELSE @]
  <2>1. /\ breaker \in [Endpoints -> Breaker]
        /\ breaker' = [n \in Endpoints |-> older(breaker[n])]
        /\ failRun \in 0..CbThreshold /\ sinceFail \in 0..CbCooldown
        /\ sinceFail' = Sat(sinceFail + 1, CbCooldown)
    BY <1>1 DEF BreakerInv, Breaker, Tick
  <2>2. ASSUME NEW b \in Breaker
        PROVE  /\ older(b) \in Breaker /\ older(b).fails = b.fails
               /\ b.left > 0 => older(b).left = b.left - 1
    <3>1. b.left \in (0 - PollBound)..CbCooldown
      BY DEF Breaker
    <3>2. (IF b.left > 0 - PollBound THEN b.left - 1 ELSE b.left) \in (0 - PollBound)..CbCooldown
      BY <3>1, Constants
    <3>3. b.left > 0 => (IF b.left > 0 - PollBound THEN b.left - 1 ELSE b.left) = b.left - 1
      BY <3>1, Constants
    <3> QED
      BY <3>2, <3>3 DEF Breaker
  <2>3. "spend" \in Endpoints /\ breaker["spend"] \in Breaker
    BY <2>1 DEF Endpoints
  <2> HIDE DEF older
  <2>4. breaker' \in [Endpoints -> Breaker] /\ breaker'["spend"] = older(breaker["spend"])
    BY <2>1, <2>2, <2>3
  <2>5. sinceFail' \in 0..CbCooldown /\ (sinceFail' = sinceFail + 1 \/ sinceFail' = CbCooldown)
    BY <2>1, Constants DEF Sat
  <2>6. ASSUME Mode = "full"
        PROVE  /\ failRun' = Sat(breaker'["spend"].fails, CbThreshold)
               /\ failRun' = CbThreshold =>
                     sinceFail' = CbCooldown \/ breaker'["spend"].left + sinceFail' >= CbCooldown
    <3>1. failRun' = Sat(breaker'["spend"].fails, CbThreshold)
      BY <1>1, <1>2, <2>2, <2>3, <2>4, <2>6 DEF BreakerInv
    <3>2. ASSUME failRun' = CbThreshold, sinceFail' # CbCooldown
          PROVE  breaker'["spend"].left + sinceFail' >= CbCooldown
      <4>1. breaker["spend"].left \in Int
        BY <2>3, Constants DEF Breaker
      <4>2. sinceFail # CbCooldown
        BY <2>1, <2>5, <3>2, Constants
      <4>3. breaker["spend"].left + sinceFail >= CbCooldown
        BY <1>1, <1>2, <2>6, <3>2, <4>2 DEF BreakerInv
      <4>4. breaker["spend"].left > 0
        BY <2>1, <4>1, <4>2, <4>3, Constants
      <4>5. breaker'["spend"].left = breaker["spend"].left - 1
        BY <2>2, <2>3, <2>4, <4>4
      <4> QED
        BY <2>1, <2>5, <3>2, <4>1, <4>3, <4>5, Constants
    <3> QED
      BY <3>1, <3>2
  <2> QED
    BY <1>2, <2>1, <2>4, <2>5, <2>6 DEF BreakerInv, Breaker
<1>7. store' \in {store, Upsert(heavy)}
  BY DEF Tick
<1> QED
  BY <1>3, <1>4, <1>5, <1>6, <1>7 DEF Does

LEMMA RestStep == ASSUME IInv, Settle \/ UNCHANGED vars PROVE Does(heavy)
<1>1. PlaceInv /\ ReadInv /\ StoreInv /\ BreakerInv /\ ProxyInv
  BY DEF IInv
<1>2. UNCHANGED <<pc, pollAge, heavy, heavyAge, shown, breaker, cache, cacheAge, store, blanks,
                  failRun, sinceFail>>
  BY DEF Settle, vars, poll, budgets, history
<1>3. ProxyInv'
  BY <1>1 DEF Settle, vars, proxy, ProxyInv
<1>4. BreakerInv' /\ Told(heavy)
  BY <1>1, <1>2, SameBreaker, ToldReadings
<1>5. PlaceInv' /\ ReadInv'
  BY <1>1, <1>2 DEF PlaceInv, ReadInv, Found
<1> QED
  BY <1>2, <1>3, <1>4, <1>5 DEF Does

-----------------------------------------------------------------------------
LEMMA StepDoes == IInv /\ [Next]_vars => \E r : Does(r)
<1> SUFFICES ASSUME IInv, [Next]_vars PROVE \E r : Does(r)
  OBVIOUS
<1>1. ASSUME NEW w \in Walkers, Walk(w) PROVE \E r : Does(r)
  <2>1. CASE (\E recorded \in BOOLEAN : WalkFails(w, recorded)) \/ WalkRaises(w)
    BY <2>1, FailedWalkStep
  <2>2. CASE \E rows \in Readings \ {<< >>}, complete \in BOOLEAN : WalkReturns(w, rows, complete)
    BY <2>2, WalkStep
  <2> QED
    BY <1>1, <2>1, <2>2 DEF Walk
<1>2. CASE LoopStep
  <2>1. CASE LoopFails \/ LoopReuses \/ HeavySkipped \/ HeavyPulls \/ LoopTimesOut
    BY <2>1, QuietStep
  <2>2. CASE \E ok, shed \in BOOLEAN : PullEnds(ok, shed)
    BY <2>2, PullStep
  <2>3. CASE Walk("loop")
    BY <2>3, <1>1 DEF Walkers
  <2> QED
    BY <1>2, <2>1, <2>2, <2>3 DEF LoopStep
<1>3. CASE PanelOpens
  BY <1>3, PanelStep
<1>4. CASE Walk("panel")
  BY <1>4, <1>1 DEF Walkers
<1>5. CASE Tick
  BY <1>5, TickStep
<1>6. CASE Settle \/ UNCHANGED vars
  BY <1>6, RestStep
<1> QED
  BY <1>2, <1>3, <1>4, <1>5, <1>6 DEF Next

LEMMA InitIInv == Init => IInv
<1> SUFFICES ASSUME Init PROVE IInv
  OBVIOUS
<1>1. << >> \in Readings /\ DOMAIN << >> = {}
  BY EmptyReading
<1>2. Closed \in Breaker /\ Sat(Closed.fails, CbThreshold) = 0
  BY Constants DEF Closed, Breaker, Sat
<1>3. PlaceInv
  BY Constants DEF Init, PlaceInv, Walkers
<1>4. ReadInv
  <2>1. heavy = << >> /\ cache = << >> /\ shown = FALSE
    BY DEF Init
  <2>2. heavy \in Readings /\ cache \in Readings /\ Found(heavy) /\ Found(cache)
    BY <1>1, <2>1 DEF Found
  <2>3. shown \in BOOLEAN
    BY <2>1
  <2>4. /\ heavyAge \in 0..HeavyInterval /\ cacheAge \in 0..CacheTTL
        /\ blanks \in [EverOwned -> 0..BlankThreshold]
    BY Constants DEF Init
  <2> QED
    BY <2>2, <2>3, <2>4 DEF ReadInv
<1>5. StoreInv
  BY <1>1 DEF Init, StoreInv
<1>6. BreakerInv
  <2>1. breaker \in [Endpoints -> Breaker] /\ breaker["spend"] = Closed
    BY <1>2 DEF Init, Endpoints
  <2> QED
    BY <1>2, <2>1, Constants DEF Init, BreakerInv, Breaker
<1>7. ProxyInv
  BY DEF Init, ProxyInv
<1> QED
  BY <1>3, <1>4, <1>5, <1>6, <1>7 DEF IInv

LEMMA NextIInv == IInv /\ [Next]_vars => IInv' /\ \A k \in Owners \ Owners' : blanks'[k] > 0
<1> SUFFICES ASSUME IInv, [Next]_vars
             PROVE  IInv' /\ \A k \in Owners \ Owners' : blanks'[k] > 0
  OBVIOUS
<1>1. PICK r : Does(r)
  BY StepDoes
<1>2. PlaceInv' /\ ReadInv' /\ BreakerInv' /\ ProxyInv' /\ Told(r) /\ store' \in {store, Upsert(r)}
  BY <1>1 DEF Does
<1>3. StoreInv' /\ \A k \in Owners \ Owners' : blanks'[k] > 0
  BY <1>2, StoreStep DEF IInv
<1> QED
  BY <1>2, <1>3 DEF IInv

LEMMA IInvTypes == IInv => TypeOK
<1> SUFFICES ASSUME IInv PROVE TypeOK
  OBVIOUS
<1>1. pc["loop"] \in {"idle", "spending", "walking"} /\ pc["panel"] \in {"idle", "walking"}
  BY DEF IInv, PlaceInv, Walkers
<1>2. \A k \in DOMAIN store : store[k] \in [owned : BOOLEAN, streak : 0..BlankThreshold]
  BY DEF IInv, StoreInv, Row
<1> QED
  BY <1>1, <1>2 DEF TypeOK, IInv, PlaceInv, ReadInv, StoreInv, BreakerInv, ProxyInv

\* The logs are pulled from an idle loop by one action only.
LEMMA OnlyHeavyPulls ==
  ASSUME IInv, [Next]_vars, pc["loop"] = "idle", pc'["loop"] = "spending"
  PROVE  HeavyPulls
<1>1. pc \in [Walkers -> {"idle", "spending", "walking"}] /\ "loop" \in Walkers
  BY DEF IInv, PlaceInv, Walkers
<1>2. ASSUME NEW w \in Walkers, NEW r, Return(w, r) PROVE FALSE
  BY <1>1, <1>2 DEF Return
<1>3. ASSUME NEW w \in Walkers, KeyBudgets(w) PROVE FALSE
  BY <1>1, <1>2, <1>3 DEF KeyBudgets
<1>4. ASSUME NEW w \in Walkers, Walk(w) PROVE FALSE
  BY <1>2, <1>4 DEF Walk, WalkFails, WalkRaises, WalkReturns
<1>5. ~Walk("loop") /\ ~Walk("panel") /\ ~KeyBudgets("panel")
  BY <1>3, <1>4 DEF Walkers
<1>6. pc' # pc
  OBVIOUS
<1> QED
  BY <1>5, <1>6 DEF Next, LoopStep, LoopFails, LoopReuses, HeavySkipped, LoopTimesOut, PullEnds,
     PanelOpens, Tick, Settle, vars

-----------------------------------------------------------------------------
\* Once CbThreshold pulls in a row have failed the proxy is asked for its logs once
\* per cooldown, until one pull succeeds, for any intervals and thresholds
\* (litellm.py:332-355).
THEOREM ProxyIsLeftAlone == Spec => OneProbePerCooldown
<1>1. IInv /\ [Next]_vars =>
        [Mode = "full" /\ pc["loop"] = "idle" /\ pc'["loop"] = "spending"
            => failRun < CbThreshold \/ sinceFail = CbCooldown]_vars
  <2> SUFFICES ASSUME IInv, [Next]_vars, Mode = "full", pc["loop"] = "idle", pc'["loop"] = "spending"
               PROVE  failRun < CbThreshold \/ sinceFail = CbCooldown
    OBVIOUS
  <2>1. HeavyPulls
    BY OnlyHeavyPulls
  <2>2. /\ pollAge = 0 /\ failRun \in 0..CbThreshold /\ sinceFail \in 0..CbCooldown
        /\ breaker["spend"] \in Breaker
        /\ failRun = CbThreshold =>
              sinceFail = CbCooldown \/ breaker["spend"].left + sinceFail >= CbCooldown
    BY DEF IInv, PlaceInv, BreakerInv, Breaker, Endpoints
  <2>3. breaker["spend"].left \in Int /\ ~(breaker["spend"].left > 0)
    BY <2>1, <2>2, Constants DEF HeavyPulls, Open, Breaker
  <2> QED
    BY <2>2, <2>3, Constants
<1>2. IInv /\ [Next]_vars => IInv'
  BY NextIInv
<1> QED
  BY <1>1, <1>2, InitIInv, PTL DEF Spec, OneProbePerCooldown

\* A key keeps its owner until a walk has found it without one, for any keys, caches
\* and thresholds; and the types hold (db.py:733-787, litellm.py:1586-1602).
THEOREM OwnersAreNotLostUnread == Spec => OwnerNotLostUnread
<1>1. IInv /\ [Next]_vars => [\A k \in Owners \ Owners' : blanks'[k] > 0]_vars
  BY NextIInv
<1>2. IInv /\ [Next]_vars => IInv'
  BY NextIInv
<1> QED
  BY <1>1, <1>2, IInvTypes, InitIInv, PTL DEF Spec, OwnerNotLostUnread
-----------------------------------------------------------------------------
(* The events of the status lane, for any heartbeat, retention and         *)
(* downtimes.                                                              *)

Verdict == {"up", "down", "none", "off"}
Event == [ts : Nat, up : Verdict]

\* The rows are in the order of their stamps, and each tells what its tick saw.
EventsTrue ==
    /\ \A i \in DOMAIN events : events[i].ts \in 1..now /\ events[i].up = seen[events[i].ts]
    /\ \A i \in 1..(Len(events) - 1) : events[i].ts < events[i + 1].ts

LaneTyped ==
    /\ now \in 0..MaxTime /\ state \in {"up", "down", "unknown"}
    /\ stamp \in 0..now /\ failed \in 0..now
    /\ seen \in Seq(Verdict) /\ Len(seen) = now /\ events \in Seq(Event)
    /\ failures \in 0..MaxFailures /\ restarts \in 0..MaxRestarts

\* What is remembered of the backend is its newest event, unless that is the one that
\* was lost.
Remembered ==
    state # "unknown" =>
        /\ stamp >= 1
        /\ failed = stamp \/ (events # << >> /\ events[Len(events)].up = state)

\* LostEventIsMended, of the last row by its number.
Mended ==
    (failed > 0 /\ now >= failed + Heartbeat /\ seen[now] \in {"up", "down"})
        => events # << >> /\ events[Len(events)].up = seen[now]

LaneIInv == LaneTyped /\ EventsTrue /\ Remembered /\ Mended

\* The last element of a sequence that was extended, and of a tail of one.
LEMMA LastIs ==
  ASSUME NEW s \in Seq(Event)
  PROVE  /\ \A e \in Event : LET r == Append(s, e)
                             IN  r \in Seq(Event) /\ r # << >> /\ r[Len(r)] = e
         /\ \A n \in 1..Len(s) : LET r == SubSeq(s, n, Len(s))
                                 IN  r \in Seq(Event) /\ r # << >> /\ r[Len(r)] = s[Len(s)]
<1>1. ASSUME NEW n \in 1..Len(s)
      PROVE  LET r == SubSeq(s, n, Len(s))
             IN  r \in Seq(Event) /\ r # << >> /\ r[Len(r)] = s[Len(s)]
  <2> DEFINE r == SubSeq(s, n, Len(s))
  <2>1. r \in Seq(Event) /\ Len(r) = Len(s) - n + 1 /\ r[Len(r)] = s[Len(s)]
    OBVIOUS
  <2>2. \A q \in Seq(Event) : Len(q) >= 1 => q # << >>
    OBVIOUS
  <2> HIDE DEF r
  <2>3. r # << >>
    BY <2>1, <2>2
  <2>4. QED BY <2>1, <2>3 DEF r
<1> QED
  BY <1>1

LEMMA MendedIs == LostEventIsMended <=> Mended
BY DEF Mended, LostEventIsMended, Last

LEMMA InitLaneIInv == LaneInit => LaneIInv
BY TimelineAssumption DEF TimelineAssumption, LaneInit, LaneIInv, LaneTyped, EventsTrue, Remembered,
       Mended

\* A tick: what is written is what it saw, and an event that is lost is as young as the
\* tick (app.py:332-366).
LEMMA LaneTrack ==
  ASSUME LaneIInv,
         NEW v \in {"up", "down", "none"}, NEW stored \in BOOLEAN, Track(v, stored)
  PROVE  LaneIInv'
<1> USE TimelineAssumption DEF TimelineAssumption
<1> DEFINE writes == Configured(v) /\ Noteworthy(v, now')
           e == [ts |-> now', up |-> v]
<1>1. now \in Nat /\ now' = now + 1 /\ now' \in 0..MaxTime /\ e \in Event
  BY DEF Track, LaneIInv, LaneTyped, Event, Verdict
<1>2. seen' = Append(seen, v) /\ seen' \in Seq(Verdict) /\ Len(seen') = now' /\ seen'[now'] = v
      /\ \A i \in 1..now : seen'[i] = seen[i]
  BY <1>1 DEF Track, LaneIInv, LaneTyped, Verdict
<1>3. CASE writes /\ stored
  <2>1. /\ state' = v /\ stamp' = now' /\ events' = Append(events, e)
        /\ UNCHANGED <<failed, failures, restarts>>
    BY <1>3 DEF Track
  <2>2. v \in {"up", "down"}
    BY <1>3 DEF Configured
  <2>3. events' \in Seq(Event) /\ events' # << >> /\ events'[Len(events')] = e
    BY <1>1, <2>1, LastIs DEF LaneIInv, LaneTyped
  <2>4. LaneTyped'
    BY <1>1, <1>2, <2>1, <2>2, <2>3 DEF LaneIInv, LaneTyped
  <2>5. EventsTrue'
    <3> DEFINE n == Len(events)
    <3>1. /\ n \in Nat /\ DOMAIN events = 1..n /\ Len(events') = n + 1
          /\ DOMAIN events' = 1..(n + 1) /\ events'[n + 1] = e
          /\ \A i \in 1..n : events'[i] = events[i]
      BY <1>1, <2>1 DEF LaneIInv, LaneTyped
    <3>2. /\ \A i \in 1..n : events[i].ts \in 1..now /\ events[i].up = seen[events[i].ts]
          /\ \A i \in 1..(n - 1) : events[i].ts < events[i + 1].ts
      BY <3>1 DEF LaneIInv, EventsTrue
    <3>3. e.ts = now' /\ e.up = v
      OBVIOUS
    <3> HIDE DEF n, e
    <3>4. \A i \in 1..(n + 1) : events'[i].ts \in 1..now' /\ events'[i].up = seen'[events'[i].ts]
      BY <1>1, <1>2, <3>1, <3>2, <3>3
    <3>5. \A i \in 1..n : events'[i].ts < events'[i + 1].ts
      BY <1>1, <3>1, <3>2, <3>3
    <3>6. (n + 1) - 1 = n
      BY <3>1
    <3> QED
      BY <3>1, <3>4, <3>5, <3>6 DEF EventsTrue
  <2>6. QED
    BY <1>1, <1>2, <2>1, <2>2, <2>3, <2>4, <2>5
    DEF LaneIInv, Remembered, Mended
<1>4. CASE writes /\ ~stored
  <2>1. /\ state' = v /\ stamp' = now' /\ failed' = now'
        /\ failures' = failures + 1 /\ failures' <= MaxFailures /\ UNCHANGED <<events, restarts>>
    BY <1>4 DEF Track
  <2>2. v \in {"up", "down"}
    BY <1>4 DEF Configured
  <2>4. LaneTyped'
    BY <1>1, <1>2, <2>1, <2>2 DEF LaneIInv, LaneTyped
  <2>5. EventsTrue'
    BY <1>1, <1>2, <2>1 DEF LaneIInv, LaneTyped, EventsTrue
  <2>6. ~(now' >= failed' + Heartbeat)
    BY <1>1, <2>1
  <2>7. QED
    BY <1>1, <2>1, <2>4, <2>5, <2>6 DEF LaneIInv, Remembered, Mended
<1>5. CASE ~writes
  <2>1. UNCHANGED <<state, stamp, events, failed, failures, restarts>>
    BY <1>5 DEF Track
  <2>2. v = "none" \/ (v = state /\ now' - stamp < Heartbeat)
    BY <1>1, <1>5 DEF Configured, Noteworthy, LaneIInv, LaneTyped
  <2>3. LaneTyped'
    BY <1>1, <1>2, <2>1 DEF LaneIInv, LaneTyped
  <2>4. EventsTrue'
    BY <1>1, <1>2, <2>1 DEF LaneIInv, LaneTyped, EventsTrue
  <2>5. Remembered'
    BY <2>1 DEF LaneIInv, Remembered
  <2>6. CASE v = "none"
    BY <1>2, <2>3, <2>4, <2>5, <2>6 DEF LaneIInv, Mended
  <2>7. CASE v = state /\ now' - stamp < Heartbeat /\ v # "none"
    <3>1. state # "unknown"
      BY <2>7
    <3>2. failed = stamp \/ (events # << >> /\ events[Len(events)].up = v)
      BY <2>7, <3>1 DEF LaneIInv, Remembered
    <3>3. failed = stamp => ~(now' >= failed' + Heartbeat)
      BY <1>1, <2>1, <2>7 DEF LaneIInv, LaneTyped
    <3>4. Mended'
      BY <1>2, <2>1, <3>2, <3>3 DEF Mended
    <3>5. QED BY <2>3, <2>4, <2>5, <3>4 DEF LaneIInv
  <2>8. QED BY <2>2, <2>6, <2>7
<1> QED BY <1>3, <1>4, <1>5

\* Pruning keeps the newest row, whatever its age (db.py:2016-2021).
LEMMA LanePrune ==
  ASSUME LaneIInv, Prune
  PROVE  LaneIInv'
<1>1. UNCHANGED <<now, state, stamp, seen, failed, failures, restarts>>
  BY DEF Prune
<1>2. events \in Seq(Event)
  BY DEF LaneIInv, LaneTyped
<1>3. PICK first \in DOMAIN events : events' = SubSeq(events, first, Len(events))
  BY DEF Prune
<1>4. first \in 1..Len(events)
  BY <1>2, <1>3
<1>5. /\ events' \in Seq(Event) /\ events' # << >> /\ events'[Len(events')] = events[Len(events)]
      /\ events # << >>
  <2>1. LET r == SubSeq(events, first, Len(events))
        IN  r \in Seq(Event) /\ r # << >> /\ r[Len(r)] = events[Len(events)]
    BY <1>2, <1>4, LastIs
  <2>2. QED BY <1>2, <1>3, <1>4, <2>1
<1>6. EventsTrue'
  <2> DEFINE r == SubSeq(events, first, Len(events))
             n == Len(events) - first + 1
  <2>1. Len(r) = n /\ \A i \in 1..n : r[i] = events[i + first - 1]
    BY <1>2, <1>4
  <2>2. events' = r /\ DOMAIN r = 1..n
    BY <1>2, <1>3, <1>4
  <2> HIDE DEF r
  <2>3. ASSUME NEW i \in 1..n
        PROVE  r[i].ts \in 1..now /\ r[i].up = seen[r[i].ts]
    <3>1. i + first - 1 \in DOMAIN events
      BY <1>2, <1>4
    <3>2. QED BY <2>1, <3>1 DEF LaneIInv, EventsTrue
  <2>4. ASSUME NEW i \in 1..(n - 1)
        PROVE  r[i].ts < r[i + 1].ts
    <3> DEFINE j == i + first - 1
    <3>1. j \in 1..(Len(events) - 1) /\ i \in 1..n /\ i + 1 \in 1..n /\ (i + 1) + first - 1 = j + 1
      BY <1>2, <1>4
    <3>2. r[i] = events[j] /\ r[i + 1] = events[j + 1]
      BY <2>1, <3>1
    <3>3. QED BY <3>1, <3>2 DEF LaneIInv, EventsTrue
  <2>5. QED BY <1>1, <2>1, <2>2, <2>3, <2>4 DEF EventsTrue
<1>7. LaneTyped'
  BY <1>1, <1>5 DEF LaneIInv, LaneTyped
<1>8. Remembered' /\ Mended'
  BY <1>1, <1>5 DEF LaneIInv, Remembered, Mended
<1> QED BY <1>6, <1>7, <1>8 DEF LaneIInv

\* A restart forgets the state, and sees nothing while the process is down
\* (app.py:51-60).
LEMMA LaneRestart ==
  ASSUME LaneIInv, NEW gap \in Gaps, Restart(gap)
  PROVE  LaneIInv'
<1> DEFINE dark == [i \in 1..gap |-> "off"]
<1>1. gap \in Nat /\ now \in Nat /\ now' = now + gap /\ now' \in 0..MaxTime
  BY TimelineAssumption DEF TimelineAssumption, Restart, LaneIInv, LaneTyped
<1>2. state' = "unknown" /\ stamp' = 0 /\ UNCHANGED <<events, failed, failures>>
      /\ restarts' = restarts + 1 /\ restarts < MaxRestarts
  BY DEF Restart
<1>3. dark \in Seq(Verdict) /\ Len(dark) = gap
  BY <1>1 DEF Verdict
<1>4. /\ seen' = seen \o dark /\ seen' \in Seq(Verdict) /\ Len(seen') = now'
      /\ \A i \in 1..now : seen'[i] = seen[i]
      /\ \A i \in (now + 1)..now' : seen'[i] = "off"
  <2>1. seen \in Seq(Verdict) /\ Len(seen) = now /\ seen' = seen \o dark
    BY DEF Restart, LaneIInv, LaneTyped
  <2>2. \A j \in 1..gap : dark[j] = "off"
    OBVIOUS
  <2> HIDE DEF dark
  <2>3. seen \o dark \in Seq(Verdict) /\ Len(seen \o dark) = now + gap
    BY <1>1, <1>3, <2>1
  <2>4. \A i \in 1..now : (seen \o dark)[i] = seen[i]
    BY <1>1, <1>3, <2>1
  <2>5. ASSUME NEW i \in (now + 1)..(now + gap)
        PROVE  (seen \o dark)[i] = dark[i - now] /\ i - now \in 1..gap
    <3>1. i - now \in 1..gap /\ i \in 1..(Len(seen) + Len(dark)) /\ ~(i <= Len(seen))
      BY <1>1, <1>3, <2>1
    <3>2. \A s \in Seq(Verdict), t \in Seq(Verdict) : \A j \in 1..(Len(s) + Len(t)) :
              ~(j <= Len(s)) => (s \o t)[j] = t[j - Len(s)]
      OBVIOUS
    <3>3. QED BY <1>3, <2>1, <3>1, <3>2
  <2>6. QED BY <1>1, <2>1, <2>2, <2>3, <2>4, <2>5
<1>5. LaneTyped'
  BY <1>1, <1>2, <1>4, TimelineAssumption DEF TimelineAssumption, LaneIInv, LaneTyped
<1>6. EventsTrue'
  BY <1>1, <1>2, <1>4 DEF LaneIInv, LaneTyped, EventsTrue
<1>7. Mended'
  <2>1. CASE gap = 0
    <3>1. now' = now
      BY <1>1, <2>1
    <3>2. now >= 1 => now \in 1..now
      BY <1>1
    <3>3. now >= 1 => seen'[now'] = seen[now]
      BY <1>4, <3>1, <3>2
    <3>4. failed > 0 => now >= 1
      BY <1>1 DEF LaneIInv, LaneTyped
    <3>5. QED BY <1>2, <3>1, <3>3, <3>4 DEF LaneIInv, Mended
  <2>2. CASE gap # 0
    <3>1. now' \in (now + 1)..now'
      BY <1>1, <2>2
    <3>2. QED BY <1>4, <3>1 DEF Mended
  <2>3. QED BY <2>1, <2>2
<1> QED BY <1>2, <1>5, <1>6, <1>7 DEF LaneIInv, Remembered

LEMMA NextLaneIInv ==
  ASSUME LaneIInv, [LaneNext]_laneVars
  PROVE  LaneIInv'
<1>1. CASE UNCHANGED laneVars
  BY <1>1 DEF LaneIInv, LaneTyped, EventsTrue, Remembered, Mended, laneVars
<1>2. CASE Stop
  BY <1>1, <1>2 DEF Stop
<1>3. QED
  BY <1>1, <1>2, LaneTrack, LanePrune, LaneRestart DEF LaneNext

\* A lost event is mended: once the backend was seen a heartbeat after the loss, the
\* newest event is the state it is in, and every row tells what its tick saw
\* (app.py:349-359).
THEOREM LostEventsAreMended == LaneSpec => [](LaneTypeOK /\ LostEventIsMended)
<1>1. LaneInit => LaneIInv
  BY InitLaneIInv
<1>2. LaneIInv /\ [LaneNext]_laneVars => LaneIInv'
  BY NextLaneIInv
<1>3. LaneIInv => LaneTypeOK /\ LostEventIsMended
  BY MendedIs DEF LaneIInv, LaneTyped, EventsTrue, Verdict, LaneTypeOK
<1> QED
  BY <1>1, <1>2, <1>3, PTL DEF LaneSpec
-----------------------------------------------------------------------------
(***************************************************************************)
(* The lanes drawn from the events.  First what the rows say of the past:  *)
(* while no event was lost, the newest row up to an instant is what was    *)
(* last seen of the backend, and who was watched for a heartbeat has one.  *)
(***************************************************************************)
RowsOrdered == \A i, j \in DOMAIN events : i < j => events[i].ts < events[j].ts
RowsKnown   == \A i \in DOMAIN events : events[i].up \in {"up", "down"}

Stamped == failed = 0 /\ state # "unknown" => events # << >> /\ events[Len(events)].ts = stamp

\* Since a row, and before the next, nothing else was seen.
SeenSince ==
    failed = 0 => \A j \in DOMAIN events, m \in 1..now :
        /\ m > events[j].ts /\ seen[m] \in {"up", "down"}
        /\ \A k \in DOMAIN events : k > j => events[k].ts > m
        => seen[m] = events[j].up

Watched(t) == t >= Heartbeat /\ \A i \in (t - Heartbeat + 1)..t : seen[i] \in {"up", "down"}

Beats ==
    failed = 0 => \A t \in 1..now :
        t - Heartbeat + 1 >= now - Retention /\ Watched(t)
            => \E j \in DOMAIN events : events[j].ts \in (t - Heartbeat + 1)..t

\* Once the backend was seen there is a row.
Once == failed = 0 /\ (\E m \in 1..now : seen[m] \in {"up", "down"}) => events # << >>

LaneHist == RowsOrdered /\ RowsKnown /\ Stamped /\ SeenSince /\ Beats /\ Once

LEMMA TrackHist ==
  ASSUME LaneIInv, LaneIInv', LaneHist,
         NEW v \in {"up", "down", "none"}, NEW stored \in BOOLEAN, Track(v, stored)
  PROVE  LaneHist'
<1> DEFINE writes == Configured(v) /\ Noteworthy(v, now')
           e == [ts |-> now', up |-> v]
<1>1. now \in Nat /\ now' = now + 1 /\ stamp \in 0..now /\ events \in Seq(Event)
      /\ Heartbeat \in Nat \ {0} /\ Retention \in Nat
  BY TimelineAssumption DEF TimelineAssumption, Track, LaneIInv, LaneTyped
<1>2. seen' = Append(seen, v) /\ seen \in Seq(Verdict) /\ Len(seen) = now
      /\ seen'[now'] = v /\ \A i \in 1..now : seen'[i] = seen[i]
  BY <1>1 DEF Track, LaneIInv, LaneTyped, Verdict
<1>3. \A i \in DOMAIN events : events[i].ts \in 1..now
  BY DEF LaneIInv, EventsTrue
<1>4. ASSUME NEW t \in 1..now
      PROVE  Watched(t)' <=> Watched(t)
  <2>1. \A i \in (t - Heartbeat + 1)..t : t >= Heartbeat => i \in 1..now
    BY <1>1
  <2> QED
    BY <1>2, <2>1 DEF Watched
<1>5. CASE writes /\ stored
  <2>1. /\ state' = v /\ stamp' = now' /\ events' = Append(events, e) /\ failed' = failed
        /\ v \in {"up", "down"}
    BY <1>5 DEF Track, Configured
  <2>2. /\ DOMAIN events' = 1..(Len(events) + 1) /\ DOMAIN events = 1..Len(events) /\ Len(events) \in Nat
        /\ Len(events') = Len(events) + 1 /\ events' # << >>
        /\ events'[Len(events) + 1] = e /\ \A i \in DOMAIN events : events'[i] = events[i]
    BY <1>1, <2>1 DEF Event, Verdict
  <2> DEFINE n == Len(events)
  <2>3. e.ts = now' /\ e.up = v
    OBVIOUS
  <2> HIDE DEF e, n
  <2>4. RowsOrdered'
    BY <1>1, <1>3, <2>2, <2>3 DEF LaneHist, RowsOrdered
  <2>5. RowsKnown'
    BY <2>1, <2>2, <2>3 DEF LaneHist, RowsKnown
  <2>6. Stamped'
    BY <2>1, <2>2, <2>3 DEF Stamped
  <2>7. SeenSince'
    <3> SUFFICES ASSUME failed = 0, NEW j \in DOMAIN events', NEW m \in 1..now',
                        m > events'[j].ts, seen'[m] \in {"up", "down"},
                        \A k \in DOMAIN events' : k > j => events'[k].ts > m
                 PROVE  seen'[m] = events'[j].up
      BY <2>1 DEF SeenSince
    <3>1. j \in DOMAIN events /\ m \in 1..now
      BY <1>1, <2>2, <2>3
    <3>2. \A k \in DOMAIN events : k > j => events[k].ts > m
      BY <2>2
    <3> QED
      BY <1>2, <2>2, <3>1, <3>2 DEF LaneHist, SeenSince
  <2>8. Beats'
    <3> SUFFICES ASSUME failed = 0, NEW t \in 1..now', t - Heartbeat + 1 >= now' - Retention, Watched(t)'
                 PROVE  \E j \in DOMAIN events' : events'[j].ts \in (t - Heartbeat + 1)..t
      BY <2>1 DEF Beats
    <3>1. CASE t = now'
      BY <1>1, <2>2, <2>3, <3>1
    <3>2. CASE t \in 1..now
      <4>1. t - Heartbeat + 1 >= now - Retention /\ Watched(t)
        BY <1>1, <1>4, <3>2
      <4>2. PICK j \in DOMAIN events : events[j].ts \in (t - Heartbeat + 1)..t
        BY <3>2, <4>1 DEF LaneHist, Beats
      <4> QED
        BY <2>2, <4>2
    <3> QED
      BY <1>1, <3>1, <3>2
  <2>9. Once'
    BY <2>2 DEF Once
  <2> QED
    BY <2>4, <2>5, <2>6, <2>7, <2>8, <2>9 DEF LaneHist
<1>6. CASE ~(writes /\ stored)
  <2>1. events' = events
    BY <1>6 DEF Track
  <2>2. RowsOrdered' /\ RowsKnown'
    BY <2>1 DEF LaneHist, RowsOrdered, RowsKnown
  <2>3. CASE writes
    <3>1. writes /\ ~stored
      BY <1>6, <2>3
    <3>2. failed' = now'
      BY <3>1 DEF Track
    <3>3. now' # 0
      BY <1>1
    <3> QED
      BY <2>2, <3>2, <3>3 DEF LaneHist, Stamped, SeenSince, Beats, Once
  <2>4. CASE ~writes
    <3>1. state' = state /\ stamp' = stamp /\ failed' = failed
      BY <2>4 DEF Track
    <3>2. v = "none" \/ (v = state /\ now' - stamp < Heartbeat /\ v # "unknown")
      BY <1>1, <2>4 DEF Configured, Noteworthy
    <3>3. Stamped'
      BY <2>1, <3>1 DEF LaneHist, Stamped
    <3>4. ASSUME failed = 0, v # "none"
          PROVE  LET n == Len(events) IN
                 n \in DOMAIN events /\ events[n].ts = stamp /\ events[n].up = v /\ DOMAIN events = 1..n
      <4>1. events # << >> /\ events[Len(events)].ts = stamp
        BY <3>2, <3>4 DEF LaneHist, Stamped
      <4>2. events[Len(events)].up = v
        BY <1>1, <3>2, <3>4 DEF LaneIInv, Remembered
      <4> QED
        BY <1>1, <4>1, <4>2
    <3>5. SeenSince'
      <4> SUFFICES ASSUME failed = 0, NEW j \in DOMAIN events, NEW m \in 1..now',
                          m > events[j].ts, seen'[m] \in {"up", "down"},
                          \A k \in DOMAIN events : k > j => events[k].ts > m
                   PROVE  seen'[m] = events[j].up
        BY <2>1, <3>1 DEF SeenSince
      <4>1. CASE m \in 1..now
        BY <1>2, <4>1 DEF LaneHist, SeenSince
      <4>2. CASE m = now'
        <5>1. v # "none" /\ seen'[m] = v
          BY <1>2, <4>2
        <5>2. Len(events) \in DOMAIN events /\ events[Len(events)].up = v /\ DOMAIN events = 1..Len(events)
          BY <3>4, <5>1
        <5>3. ~(Len(events) > j)
          BY <1>1, <1>3, <4>2, <5>2
        <5> QED
          BY <1>1, <5>1, <5>2, <5>3
      <4> QED
        BY <1>1, <4>1, <4>2
    <3>6. Beats'
      <4> SUFFICES ASSUME failed = 0, NEW t \in 1..now', t - Heartbeat + 1 >= now' - Retention, Watched(t)'
                   PROVE  \E j \in DOMAIN events : events[j].ts \in (t - Heartbeat + 1)..t
        BY <2>1, <3>1 DEF Beats
      <4>1. CASE t = now'
        <5>1. t \in (t - Heartbeat + 1)..t
          BY <1>1, <4>1
        <5>2. v # "none"
          BY <1>2, <4>1, <5>1 DEF Watched
        <5> QED
          BY <1>1, <3>2, <3>4, <4>1, <5>2
      <4>2. CASE t \in 1..now
        <5>1. t - Heartbeat + 1 >= now - Retention /\ Watched(t)
          BY <1>1, <1>4, <4>2
        <5> QED
          BY <4>2, <5>1 DEF LaneHist, Beats
      <4> QED
        BY <1>1, <4>1, <4>2
    <3>7. Once'
      <4> SUFFICES ASSUME failed = 0, NEW m \in 1..now', seen'[m] \in {"up", "down"}
                   PROVE  events # << >>
        BY <2>1, <3>1 DEF Once
      <4>1. CASE m \in 1..now
        BY <1>2, <4>1 DEF LaneHist, Once
      <4>2. CASE m = now'
        <5>1. Len(events) \in DOMAIN events
          BY <1>2, <3>4, <4>2
        <5> QED
          BY <1>1, <5>1
      <4> QED
        BY <1>1, <4>1, <4>2
    <3> QED
      BY <2>2, <3>3, <3>5, <3>6, <3>7 DEF LaneHist
  <2> QED
    BY <2>3, <2>4
<1> QED
  BY <1>5, <1>6

LEMMA PruneHist ==
  ASSUME LaneIInv, LaneHist, Prune
  PROVE  LaneHist'
<1>1. /\ UNCHANGED <<now, state, stamp, seen, failed, failures, restarts>>
      /\ now \in Nat /\ events \in Seq(Event) /\ Heartbeat \in Nat \ {0} /\ Retention \in Nat
  BY TimelineAssumption DEF TimelineAssumption, Prune, LaneIInv, LaneTyped
<1>2. PICK first \in 1..Len(events) :
          /\ events' = SubSeq(events, first, Len(events))
          /\ \A i \in 1..(first - 1) : ~(events[i].ts >= now - Retention)
  BY <1>1 DEF Prune
<1> DEFINE n == Len(events) - first + 1
<1>3. /\ n \in Nat \ {0} /\ DOMAIN events' = 1..n /\ Len(events') = n /\ events' # << >>
      /\ DOMAIN events = 1..Len(events) /\ Len(events) \in Nat
      /\ \A i \in 1..n : events'[i] = events[i + first - 1] /\ i + first - 1 \in DOMAIN events
  <2>1. events' \in Seq(Event) /\ Len(events') = n /\ n \in Nat \ {0}
    BY <1>1, <1>2
  <2>2. \A i \in 1..n : events'[i] = events[i + first - 1] /\ i + first - 1 \in 1..Len(events)
    BY <1>1, <1>2
  <2>3. DOMAIN events' = 1..n
    BY <2>1
  <2>4. events' # << >>
    BY <2>1
  <2> QED
    BY <1>1, <2>1, <2>2, <2>3, <2>4
<1> HIDE DEF n
<1>4. \A i \in DOMAIN events : i >= first => i - first + 1 \in 1..n /\ events'[i - first + 1] = events[i]
  <2> SUFFICES ASSUME NEW i \in DOMAIN events, i >= first
               PROVE  i - first + 1 \in 1..n /\ events'[i - first + 1] = events[i]
    OBVIOUS
  <2>1. i \in Nat /\ first \in Nat /\ first >= 1 /\ i <= Len(events) /\ Len(events) \in Nat
    BY <1>3
  <2>2. i - first + 1 \in 1..n /\ (i - first + 1) + first - 1 = i
    BY <2>1 DEF n
  <2> QED
    BY <1>3, <2>2
<1>5. RowsOrdered'
  <2> SUFFICES ASSUME NEW i \in 1..n, NEW j \in 1..n, i < j
               PROVE  events'[i].ts < events'[j].ts
    BY <1>3 DEF RowsOrdered
  <2>1. i + first - 1 < j + first - 1
    BY <1>2
  <2> QED
    BY <1>3, <2>1 DEF LaneHist, RowsOrdered
<1>6. RowsKnown'
  BY <1>3 DEF LaneHist, RowsKnown
<1>7. Stamped'
  <2>1. events'[n] = events[Len(events)] /\ events # << >>
    BY <1>2, <1>3 DEF n
  <2> QED
    BY <1>1, <1>3, <2>1 DEF LaneHist, Stamped
<1>8. SeenSince'
  <2> SUFFICES ASSUME failed = 0, NEW j \in 1..n, NEW m \in 1..now,
                      m > events'[j].ts, seen[m] \in {"up", "down"},
                      \A k \in 1..n : k > j => events'[k].ts > m
               PROVE  seen[m] = events'[j].up
    BY <1>1, <1>3 DEF SeenSince
  <2> DEFINE i == j + first - 1
  <2>1. i \in DOMAIN events /\ events'[j] = events[i]
    BY <1>3
  <2>2. ASSUME NEW k \in DOMAIN events, k > i
        PROVE  events[k].ts > m
    <3>1. k >= first /\ k - first + 1 > j
      BY <1>2, <1>3, <2>2
    <3> QED
      BY <1>4, <3>1
  <2> HIDE DEF i
  <2> QED
    BY <2>1, <2>2 DEF LaneHist, SeenSince
<1>9. Beats'
  <2> SUFFICES ASSUME failed = 0, NEW t \in 1..now, t - Heartbeat + 1 >= now - Retention, Watched(t)
               PROVE  \E j \in 1..n : events'[j].ts \in (t - Heartbeat + 1)..t
    BY <1>1, <1>3 DEF Beats, Watched
  <2>1. PICK j \in DOMAIN events : events[j].ts \in (t - Heartbeat + 1)..t
    BY DEF LaneHist, Beats
  <2>2. j >= first
    BY <1>1, <1>2, <1>3, <2>1
  <2> QED
    BY <1>4, <2>1, <2>2
<1>10. Once'
  BY <1>3 DEF Once
<1> QED
  BY <1>5, <1>6, <1>7, <1>8, <1>9, <1>10 DEF LaneHist

LEMMA RestartHist ==
  ASSUME LaneIInv, LaneIInv', LaneHist, NEW gap \in Gaps, Restart(gap)
  PROVE  LaneHist'
<1>1. /\ now \in Nat /\ gap \in Nat /\ now' = now + gap /\ state' = "unknown"
      /\ UNCHANGED <<events, failed>> /\ Heartbeat \in Nat \ {0} /\ Retention \in Nat
  BY TimelineAssumption DEF TimelineAssumption, Restart, LaneIInv, LaneTyped
<1> DEFINE dark == [i \in 1..gap |-> "off"]
<1>2. /\ \A i \in 1..now : seen'[i] = seen[i]
      /\ \A i \in 1..now' : i > now => seen'[i] = "off"
  <2>1. seen \in Seq(Verdict) /\ Len(seen) = now /\ seen' = seen \o dark
    BY DEF Restart, LaneIInv, LaneTyped
  <2>2. dark \in Seq(Verdict) /\ Len(dark) = gap /\ \A j \in 1..gap : dark[j] = "off"
    BY <1>1 DEF Verdict
  <2> HIDE DEF dark
  <2>3. \A i \in 1..now : (seen \o dark)[i] = seen[i]
    BY <1>1, <2>1, <2>2
  <2>4. ASSUME NEW i \in 1..now', i > now
        PROVE  (seen \o dark)[i] = "off"
    <3>1. i - now \in 1..gap /\ i \in 1..(Len(seen) + Len(dark)) /\ ~(i <= Len(seen))
      BY <1>1, <2>1, <2>2, <2>4
    <3>2. \A s \in Seq(Verdict), t \in Seq(Verdict) : \A j \in 1..(Len(s) + Len(t)) :
              ~(j <= Len(s)) => (s \o t)[j] = t[j - Len(s)]
      OBVIOUS
    <3> QED
      BY <2>1, <2>2, <3>1, <3>2
  <2> QED
    BY <2>1, <2>3, <2>4
<1>3. RowsOrdered' /\ RowsKnown' /\ Stamped'
  BY <1>1 DEF LaneHist, RowsOrdered, RowsKnown, Stamped
<1>4. SeenSince'
  <2> SUFFICES ASSUME failed = 0, NEW j \in DOMAIN events, NEW m \in 1..now',
                      m > events[j].ts, seen'[m] \in {"up", "down"},
                      \A k \in DOMAIN events : k > j => events[k].ts > m
               PROVE  seen'[m] = events[j].up
    BY <1>1 DEF SeenSince
  <2>1. m \in 1..now
    BY <1>1, <1>2
  <2> QED
    BY <1>2, <2>1 DEF LaneHist, SeenSince
<1>5. Beats'
  <2> SUFFICES ASSUME failed = 0, NEW t \in 1..now', t - Heartbeat + 1 >= now' - Retention, Watched(t)'
               PROVE  \E j \in DOMAIN events : events[j].ts \in (t - Heartbeat + 1)..t
    BY <1>1 DEF Beats
  <2>1. t >= Heartbeat /\ \A i \in (t - Heartbeat + 1)..t : seen'[i] \in {"up", "down"}
    BY DEF Watched
  <2>2. t \in (t - Heartbeat + 1)..t /\ seen'[t] \in {"up", "down"}
    BY <1>1, <2>1
  <2>3. t \in 1..now
    BY <1>1, <1>2, <2>2
  <2>4. \A i \in (t - Heartbeat + 1)..t : i \in 1..now
    BY <1>1, <2>1, <2>3
  <2>5. Watched(t)
    BY <1>2, <2>1, <2>4 DEF Watched
  <2>6. t - Heartbeat + 1 >= now - Retention
    BY <1>1
  <2> QED
    BY <2>3, <2>5, <2>6 DEF LaneHist, Beats
<1>6. Once'
  <2> SUFFICES ASSUME failed = 0, NEW m \in 1..now', seen'[m] \in {"up", "down"}
               PROVE  events # << >>
    BY <1>1 DEF Once
  <2>1. m \in 1..now
    BY <1>1, <1>2
  <2> QED
    BY <1>2, <2>1 DEF LaneHist, Once
<1> QED
  BY <1>3, <1>4, <1>5, <1>6 DEF LaneHist

LEMMA NextHist ==
  ASSUME LaneIInv, LaneIInv', LaneHist, [LaneNext]_laneVars
  PROVE  LaneHist'
<1>1. CASE UNCHANGED laneVars
  BY <1>1 DEF LaneHist, RowsOrdered, RowsKnown, Stamped, SeenSince, Beats, Once, Watched, laneVars
<1>2. CASE Stop
  BY <1>1, <1>2 DEF Stop
<1> QED
  BY <1>1, <1>2, TrackHist, PruneHist, RestartHist DEF LaneNext

LEMMA InitHist == LaneInit => LaneHist
BY DEF LaneInit, LaneHist, RowsOrdered, RowsKnown, Stamped, SeenSince, Beats, Once
-----------------------------------------------------------------------------
(***************************************************************************)
(* Induction over the rows.  That numbers have a least one comes from the  *)
(* inclusion of finite sets, which is well-founded; so a set that holds 0  *)
(* and with each number the next holds all, and a function that is defined *)
(* by recursion up to n exists.                                            *)
(***************************************************************************)
LEMMA Least ==
  ASSUME NEW T \in SUBSET Nat, T # {}
  PROVE  \E x \in T : \A y \in T : x <= y
<1> DEFINE below(x) == 0..(x - 1)
           F == {below(x) : x \in T}
<1>1. F \subseteq FiniteSubsetsOf(Nat) /\ F # {}
  <2>1. \A x \in T : below(x) \in SUBSET Nat /\ IsFiniteSet(below(x))
    BY FS_Interval
  <2> QED
    BY <2>1 DEF FiniteSubsetsOf
<1>2. \E f \in F : \A g \in F : ~ (<<g, f>> \in StrictSubsetOrdering(Nat))
  <2> HIDE DEF F
  <2> QED
    BY <1>1, FS_StrictSubsetOrderingWellFounded, WFMin
<1>3. PICK x \in T : \A y \in T : ~ (<<below(y), below(x)>> \in StrictSubsetOrdering(Nat))
  BY <1>2
<1>4. ASSUME NEW y \in T, y < x
      PROVE  <<below(y), below(x)>> \in StrictSubsetOrdering(Nat)
  <2>1. below(y) \in SUBSET Nat /\ below(x) \in SUBSET Nat /\ below(y) \subseteq below(x)
    BY <1>4
  <2>2. y \in below(x) /\ y \notin below(y)
    BY <1>4
  <2> QED
    BY <2>1, <2>2 DEF StrictSubsetOrdering
<1>5. \A y \in T : ~(y < x)
  BY <1>3, <1>4
<1> QED
  BY <1>5

LEMMA Induct ==
  ASSUME NEW S, 0 \in S, \A n \in Nat : n \in S => n + 1 \in S
  PROVE  Nat \subseteq S
<1> SUFFICES ASSUME Nat \ S # {} PROVE FALSE
  OBVIOUS
<1>1. PICK x \in Nat \ S : \A y \in Nat \ S : x <= y
  BY Least
<1>2. x # 0 /\ x - 1 \in Nat /\ x - 1 \in S
  BY <1>1
<1> QED
  BY <1>1, <1>2

IsStep(step, n, S) == step \in [1..n -> [S -> S]]

\* g is what the first steps make of the base.
IsFold(g, n, S, base, step) ==
    g \in [0..n -> S] /\ g[0] = base /\ \A i \in 1..n : g[i] = step[i][g[i - 1]]

LEMMA Recursion ==
  ASSUME NEW S, NEW n \in Nat, NEW step, IsStep(step, n, S), NEW base \in S
  PROVE  \E g : IsFold(g, n, S, base, step)
<1> DEFINE Ok(k, g) == /\ g \in [0..k -> S] /\ g[0] = base
                       /\ \A i \in 1..k : g[i] = step[i][g[i - 1]]
           Good == {k \in Nat : k <= n => \E g : Ok(k, g)}
<1>1. 0 \in Good
  <2>1. Ok(0, [i \in 0..0 |-> base])
    OBVIOUS
  <2> QED BY <2>1
<1>2. ASSUME NEW k \in Nat, k \in Good PROVE k + 1 \in Good
  <2> SUFFICES ASSUME k + 1 <= n PROVE \E g : Ok(k + 1, g)
    OBVIOUS
  <2>1. PICK g : Ok(k, g)
    BY <1>2
  <2>2. g[k] \in S /\ step[k + 1] \in [S -> S] /\ step[k + 1][g[k]] \in S
    BY <2>1 DEF IsStep
  <2> DEFINE h == [i \in 0..(k + 1) |-> IF i <= k THEN g[i] ELSE step[k + 1][g[k]]]
  <2>3. h \in [0..(k + 1) -> S]
    BY <2>1, <2>2
  <2>4. h[0] = base
    BY <2>1
  <2>5. \A i \in 1..(k + 1) : h[i] = step[i][h[i - 1]]
    <3> TAKE i \in 1..(k + 1)
    <3>1. CASE i <= k
      <4>1. h[i] = g[i] /\ h[i - 1] = g[i - 1]
        BY <3>1
      <4> QED BY <2>1, <3>1, <4>1
    <3>2. CASE i = k + 1
      <4>1. h[i] = step[k + 1][g[k]] /\ h[i - 1] = g[k]
        BY <3>2
      <4> QED BY <3>2, <4>1
    <3> QED BY <3>1, <3>2
  <2> QED BY <2>3, <2>4, <2>5
<1>3. n \in Good
  <2> HIDE DEF Good
  <2> QED BY <1>1, <1>2, Induct
<1> QED
  BY <1>3 DEF IsFold

-----------------------------------------------------------------------------
\* The lanes of a backend.
State3 == {"up", "down", "unknown"}
Seg == [from : Nat, to : Nat, up : State3]
Acc == [segs : Seq(Seg), known : Nat, upTime : Nat, state : State3, cursor : Nat]

\* What the rows tell of an instant: the newest up to it, if there is one.
Tells(t, u) ==
    \/ u = "unknown" /\ \A k \in DOMAIN events : events[k].ts > t
    \/ \E j \in DOMAIN events : /\ events[j].ts <= t /\ u = events[j].up
                                /\ \A k \in DOMAIN events : k > j => events[k].ts > t

RowsTell == [t \in Nat |-> {u \in State3 : Tells(t, u)}]

\* Runs 1..n that fill the time from start to cur and say of every instant what is told
\* of it.
Fills(segs, n, start, cur, told) ==
    /\ \A i \in 1..n : segs[i].from \in Nat /\ segs[i].to \in Nat /\ segs[i].from < segs[i].to
    /\ IF n = 0 THEN cur = start
       ELSE start < cur /\ segs[1].from = start /\ segs[n].to = cur
    /\ \A i \in 1..(n - 1) : segs[i].to = segs[i + 1].from
    /\ \A i \in 1..n : \A t \in Nat :
           segs[i].from <= t /\ t < segs[i].to => segs[i].up \in told[t]
    /\ \A t \in Nat : start <= t /\ t < cur =>
           \E i \in 1..n : segs[i].from <= t /\ t < segs[i].to

Alternates(segs, n) == \A i \in 1..(n - 1) : segs[i].up # segs[i + 1].up

LEMMA EmitIs ==
  ASSUME NEW segs \in Seq(Seg), NEW from \in Nat, NEW to \in Nat, NEW up \in State3
  PROVE  LET r == Emit(segs, from, to, up)
             n == Len(segs)
         IN  /\ r \in Seq(Seg)
             /\ \/ /\ n > 0 /\ Len(r) = n /\ segs[n].up = up /\ segs[n].to = from
                   /\ r[n] = [from |-> segs[n].from, to |-> to, up |-> up]
                   /\ \A i \in 1..(n - 1) : r[i] = segs[i]
                \/ /\ Len(r) = n + 1 /\ (n > 0 => segs[n].up # up \/ segs[n].to # from)
                   /\ r[n + 1] = [from |-> from, to |-> to, up |-> up]
                   /\ \A i \in 1..n : r[i] = segs[i]
<1> DEFINE r == Emit(segs, from, to, up)
           n == Len(segs)
<1>1. CASE segs # << >> /\ segs[n].up = up /\ segs[n].to = from
  <2>1. n > 0 /\ n \in DOMAIN segs /\ segs[n] \in Seg /\ DOMAIN segs = 1..n
    BY <1>1
  <2> DEFINE e == [segs[n] EXCEPT !.to = to]
  <2>2. e = [from |-> segs[n].from, to |-> to, up |-> up] /\ e \in Seg
    BY <1>1, <2>1 DEF Seg
  <2>3. r = [segs EXCEPT ![n] = e]
    BY <1>1 DEF Emit, Last
  <2> HIDE DEF e
  <2>4. r \in Seq(Seg) /\ Len(r) = n /\ r[n] = e /\ \A i \in 1..(n - 1) : r[i] = segs[i]
    BY <2>1, <2>2, <2>3
  <2> QED
    BY <1>1, <2>1, <2>2, <2>4
<1>2. CASE ~(segs # << >> /\ segs[n].up = up /\ segs[n].to = from)
  <2> DEFINE e == [from |-> from, to |-> to, up |-> up]
  <2>1. e \in Seg
    BY DEF Seg
  <2>2. r = Append(segs, e)
    BY <1>2 DEF Emit, Last
  <2>3. n > 0 => segs[n].up # up \/ segs[n].to # from
    BY <1>2
  <2> HIDE DEF e
  <2>4. r \in Seq(Seg) /\ Len(r) = n + 1 /\ r[n + 1] = e /\ \A i \in 1..n : r[i] = segs[i]
    BY <2>1, <2>2
  <2> QED
    BY <2>3, <2>4 DEF e
<1> QED
  BY <1>1, <1>2

\* A run that goes on is made longer.
LEMMA FillsLonger ==
  ASSUME NEW segs, NEW r, NEW told, NEW n \in Nat, NEW start \in Nat, NEW cur \in Nat, NEW to \in Nat,
         Fills(segs, n, start, cur, told), cur < to, n > 0,
         \A t \in Nat : cur <= t /\ t < to => segs[n].up \in told[t],
         \A i \in 1..(n - 1) : r[i] = segs[i],
         r[n].from = segs[n].from, r[n].to = to, r[n].up = segs[n].up, segs[n].to = cur
  PROVE  Fills(r, n, start, to, told)
<1>1. \A i \in 1..n : /\ r[i].from = segs[i].from /\ r[i].up = segs[i].up
                      /\ i < n => r[i].to = segs[i].to
                      /\ i < n \/ i = n
  OBVIOUS
<1>2. \A i \in 1..n : segs[i].from \in Nat /\ segs[i].to \in Nat /\ segs[i].from < segs[i].to
  BY DEF Fills
<1>3. \A i \in 1..n : r[i].from \in Nat /\ r[i].to \in Nat /\ r[i].from < r[i].to
  BY <1>1, <1>2
<1>4. start < to /\ r[1].from = start
  BY <1>1 DEF Fills
<1>5. \A i \in 1..(n - 1) : r[i].to = r[i + 1].from
  <2> TAKE i \in 1..(n - 1)
  <2>1. segs[i].to = segs[i + 1].from
    BY DEF Fills
  <2>2. i \in 1..n /\ i + 1 \in 1..n /\ i < n
    OBVIOUS
  <2> QED
    BY <1>1, <2>1, <2>2
<1>6. ASSUME NEW i \in 1..n, NEW t \in Nat, r[i].from <= t, t < r[i].to
      PROVE  r[i].up \in told[t]
  <2>1. CASE i < n \/ t < cur
    <3>1. segs[i].from <= t /\ t < segs[i].to
      BY <1>1, <1>6, <2>1
    <3> QED
      BY <1>1, <3>1 DEF Fills
  <2>2. CASE i = n /\ ~(t < cur)
    BY <1>6, <2>2
  <2> QED
    BY <1>1, <2>1, <2>2
<1>7. ASSUME NEW t \in Nat, start <= t, t < to
      PROVE  \E i \in 1..n : r[i].from <= t /\ t < r[i].to
  <2>1. CASE t < cur
    <3>1. PICK i \in 1..n : segs[i].from <= t /\ t < segs[i].to
      BY <1>7, <2>1 DEF Fills
    <3>2. r[i].from <= t /\ t < r[i].to
      BY <1>1, <1>7, <3>1
    <3> QED
      BY <3>2
  <2>2. CASE ~(t < cur)
    <3>1. n \in 1..n /\ r[n].from <= t /\ t < r[n].to
      BY <1>2, <1>7, <2>2
    <3> QED
      BY <3>1
  <2> QED
    BY <2>1, <2>2
<1> QED
  BY <1>3, <1>4, <1>5, <1>6, <1>7 DEF Fills

\* Another run is appended.
LEMMA FillsMore ==
  ASSUME NEW segs, NEW r, NEW told, NEW n \in Nat, NEW start \in Nat, NEW cur \in Nat, NEW to \in Nat,
         NEW up, Fills(segs, n, start, cur, told), cur < to,
         \A t \in Nat : cur <= t /\ t < to => up \in told[t],
         \A i \in 1..n : r[i] = segs[i],
         r[n + 1].from = cur, r[n + 1].to = to, r[n + 1].up = up
  PROVE  Fills(r, n + 1, start, to, told)
<1>1. \A i \in 1..(n + 1) : i \in 1..n \/ i = n + 1
  OBVIOUS
<1>2. \A i \in 1..n : segs[i].from \in Nat /\ segs[i].to \in Nat /\ segs[i].from < segs[i].to
  BY DEF Fills
<1>3. \A i \in 1..(n + 1) : r[i].from \in Nat /\ r[i].to \in Nat /\ r[i].from < r[i].to
  BY <1>1, <1>2
<1>4. start < to /\ r[1].from = start
  <2>1. CASE n = 0
    BY <2>1 DEF Fills
  <2>2. CASE n # 0
    <3>1. 1 \in 1..n
      BY <2>2
    <3> QED
      BY <2>2, <3>1 DEF Fills
  <2> QED
    BY <2>1, <2>2
<1>5. \A i \in 1..n : r[i].to = r[i + 1].from
  <2> TAKE i \in 1..n
  <2>1. CASE i = n
    BY <2>1 DEF Fills
  <2>2. CASE i # n
    <3>1. i \in 1..(n - 1) /\ i + 1 \in 1..n
      BY <2>2
    <3>2. segs[i].to = segs[i + 1].from
      BY <3>1 DEF Fills
    <3> QED
      BY <3>1, <3>2
  <2> QED
    BY <2>1, <2>2
<1>6. ASSUME NEW i \in 1..(n + 1), NEW t \in Nat, r[i].from <= t, t < r[i].to
      PROVE  r[i].up \in told[t]
  <2>1. CASE i \in 1..n
    <3>1. r[i] = segs[i]
      BY <2>1
    <3> QED
      BY <1>6, <2>1, <3>1 DEF Fills
  <2>2. CASE i = n + 1
    BY <1>6, <2>2
  <2> QED
    BY <1>1, <2>1, <2>2
<1>7. ASSUME NEW t \in Nat, start <= t, t < to
      PROVE  \E i \in 1..(n + 1) : r[i].from <= t /\ t < r[i].to
  <2>1. CASE t < cur
    <3>1. PICK i \in 1..n : segs[i].from <= t /\ t < segs[i].to
      BY <1>7, <2>1 DEF Fills
    <3>2. i \in 1..(n + 1) /\ r[i].from <= t /\ t < r[i].to
      BY <3>1
    <3> QED
      BY <3>2
  <2>2. CASE ~(t < cur)
    <3>1. n + 1 \in 1..(n + 1) /\ r[n + 1].from <= t /\ t < r[n + 1].to
      BY <1>7, <2>2
    <3> QED
      BY <3>1
  <2> QED
    BY <2>1, <2>2
<1>8. n + 1 # 0 /\ (n + 1) - 1 = n
  OBVIOUS
<1> QED
  BY <1>3, <1>4, <1>5, <1>6, <1>7, <1>8 DEF Fills

LEMMA EmitFills ==
  ASSUME NEW segs \in Seq(Seg), NEW told, NEW start \in Nat, NEW cur \in Nat, NEW to \in Nat,
         NEW up \in State3, Fills(segs, Len(segs), start, cur, told), cur < to,
         \A t \in Nat : cur <= t /\ t < to => up \in told[t],
         Alternates(segs, Len(segs))
  PROVE  LET r == Emit(segs, cur, to, up)
         IN  r \in Seq(Seg) /\ Fills(r, Len(r), start, to, told) /\ Alternates(r, Len(r))
<1> DEFINE r == Emit(segs, cur, to, up)
           n == Len(segs)
<1>1. n \in Nat /\ r \in Seq(Seg)
  <2>1. r \in Seq(Seg)
    BY EmitIs
  <2> QED
    BY <2>1
<1>2. CASE /\ n > 0 /\ Len(r) = n /\ segs[n].up = up /\ segs[n].to = cur
           /\ r[n] = [from |-> segs[n].from, to |-> to, up |-> up]
           /\ \A i \in 1..(n - 1) : r[i] = segs[i]
  <2>1. r[n].from = segs[n].from /\ r[n].to = to /\ r[n].up = segs[n].up
    BY <1>2
  <2> HIDE DEF r, n
  <2>2. Fills(segs, n, start, cur, told)
    BY DEF n
  <2>3. Fills(r, n, start, to, told)
    BY <1>1, <1>2, <2>1, <2>2, FillsLonger
  <2>4. \A i \in 1..n : r[i].up = segs[i].up
    <3>1. \A i \in 1..n : i = n \/ i \in 1..(n - 1)
      BY <1>1
    <3> QED
      BY <1>2, <2>1, <3>1
  <2>5. Alternates(r, n)
    BY <1>1, <2>4, SMTT(30) DEF Alternates, n
  <2> QED
    BY <1>1, <1>2, <2>3, <2>5 DEF r
<1>3. CASE /\ Len(r) = n + 1 /\ (n > 0 => segs[n].up # up \/ segs[n].to # cur)
           /\ r[n + 1] = [from |-> cur, to |-> to, up |-> up]
           /\ \A i \in 1..n : r[i] = segs[i]
  <2>1. r[n + 1].from = cur /\ r[n + 1].to = to /\ r[n + 1].up = up
    BY <1>3
  <2> HIDE DEF r, n
  <2>2. Fills(segs, n, start, cur, told)
    BY DEF n
  <2>3. n > 0 => segs[n].up # up
    BY <1>3, <2>2 DEF Fills
  <2>4. Fills(r, n + 1, start, to, told)
    BY <1>1, <1>3, <2>1, <2>2, FillsMore
  <2>5. Alternates(r, n + 1)
    <3> SUFFICES ASSUME NEW i \in 1..n PROVE r[i].up # r[i + 1].up
      BY <1>1 DEF Alternates
    <3>1. CASE i = n
      BY <1>1, <1>3, <2>1, <2>3, <3>1
    <3>2. CASE i # n
      <4>1. i \in 1..(n - 1) /\ i + 1 \in 1..n
        BY <1>1, <3>2
      <4> QED
        BY <1>3, <4>1 DEF Alternates, n
    <3> QED
      BY <3>1, <3>2
  <2> QED
    BY <1>1, <1>3, <2>4, <2>5 DEF r
<1> QED
  BY <1>1, <1>2, <1>3, EmitIs

LEMMA AdvanceIs ==
  ASSUME NEW acc \in Acc, NEW ts \in Nat
  PROVE  LET r == Advance(acc, ts)
             lapse == ts - acc.cursor
         IN  /\ r \in Acc /\ r.state = acc.state /\ r.cursor = acc.cursor
             /\ ~(ts > acc.cursor) => r = acc
             /\ ts > acc.cursor =>
                   /\ r.segs = Emit(acc.segs, acc.cursor, ts, acc.state)
                   /\ r.known = acc.known + (IF acc.state = "unknown" THEN 0 ELSE lapse)
                   /\ r.upTime = acc.upTime + (IF acc.state = "up" THEN lapse ELSE 0)
<1>1. /\ acc.segs \in Seq(Seg) /\ acc.known \in Nat /\ acc.upTime \in Nat
      /\ acc.state \in State3 /\ acc.cursor \in Nat
      /\ acc = [segs |-> acc.segs, known |-> acc.known, upTime |-> acc.upTime,
                state |-> acc.state, cursor |-> acc.cursor]
  BY DEF Acc
<1>2. CASE ts > acc.cursor
  <2> DEFINE lapse == ts - acc.cursor
             s == Emit(acc.segs, acc.cursor, ts, acc.state)
             k == acc.known + (IF acc.state = "unknown" THEN 0 ELSE lapse)
             u == acc.upTime + (IF acc.state = "up" THEN lapse ELSE 0)
             e == [segs |-> s, known |-> k, upTime |-> u, state |-> acc.state, cursor |-> acc.cursor]
  <2>1. s \in Seq(Seg)
    BY <1>1, EmitIs
  <2>2. k \in Nat /\ u \in Nat
    BY <1>1, <1>2
  <2>3. Advance(acc, ts) = [acc EXCEPT !.segs = s, !.known = k, !.upTime = u]
    BY <1>2 DEF Advance
  <2> HIDE DEF s, k, u
  <2>4. Advance(acc, ts) = e
    BY <1>1, <2>3
  <2>5. e \in Acc
    BY <1>1, <2>1, <2>2 DEF Acc
  <2> QED
    BY <1>2, <2>4, <2>5 DEF s, k, u
<1>3. CASE ~(ts > acc.cursor)
  BY <1>1, <1>3 DEF Advance
<1> QED
  BY <1>2, <1>3

LEMMA LaneStepIs ==
  ASSUME NEW acc \in Acc, NEW e \in Event, e.up \in State3
  PROVE  LET r == LaneStep(acc, e)
             a == Advance(acc, e.ts)
         IN  /\ r \in Acc /\ r.segs = a.segs /\ r.known = a.known /\ r.upTime = a.upTime
             /\ r.state = e.up /\ r.cursor = e.ts
<1> DEFINE a == Advance(acc, e.ts)
<1>1. e.ts \in Nat
  BY DEF Event
<1>2. a \in Acc
  BY <1>1, AdvanceIs
<1>3. LaneStep(acc, e) = [a EXCEPT !.state = e.up, !.cursor = e.ts]
  BY DEF LaneStep
<1> HIDE DEF a
<1>4. LaneStep(acc, e) = [segs |-> a.segs, known |-> a.known, upTime |-> a.upTime,
                          state |-> e.up, cursor |-> e.ts]
  BY <1>2, <1>3 DEF Acc
<1> QED
  BY <1>1, <1>2, <1>4 DEF Acc, a

UAcc == [known : Int, upTime : Int, outages : Nat, state : State3, cursor : Nat]

LEMMA UptimeStepIs ==
  ASSUME NEW acc \in UAcc, NEW e \in Event, e.up \in State3
  PROVE  LET r == UptimeStep(acc, e)
             lapse == e.ts - acc.cursor
         IN  /\ r \in UAcc /\ r.state = e.up /\ r.cursor = e.ts
             /\ r.known = acc.known + (IF acc.state = "unknown" THEN 0 ELSE lapse)
             /\ r.upTime = acc.upTime + (IF acc.state = "up" THEN lapse ELSE 0)
<1>1. /\ acc.known \in Int /\ acc.upTime \in Int /\ acc.outages \in Nat
      /\ acc.state \in State3 /\ acc.cursor \in Nat /\ e.ts \in Nat
      /\ acc = [known |-> acc.known, upTime |-> acc.upTime, outages |-> acc.outages,
                state |-> acc.state, cursor |-> acc.cursor]
  BY DEF UAcc, Event
<1> DEFINE lapse == e.ts - acc.cursor
           k == acc.known + (IF acc.state = "unknown" THEN 0 ELSE lapse)
           u == acc.upTime + (IF acc.state = "up" THEN lapse ELSE 0)
           sp == [known |-> k, upTime |-> u, outages |-> acc.outages,
                  state |-> acc.state, cursor |-> acc.cursor]
           o == acc.outages + (IF e.up = "down" THEN 1 ELSE 0)
<1>2. k \in Int /\ u \in Int /\ o \in Nat
  BY <1>1
<1>3. Spent(acc, e.ts) = [acc EXCEPT !.known = k, !.upTime = u]
  BY DEF Spent
<1>4. UptimeStep(acc, e) = [Spent(acc, e.ts) EXCEPT
                               !.outages = @ + (IF e.up = "down" THEN 1 ELSE 0),
                               !.state = e.up, !.cursor = e.ts]
  BY DEF UptimeStep
<1> HIDE DEF k, u
<1>5. Spent(acc, e.ts) = sp
  BY <1>1, <1>3
<1>6. UptimeStep(acc, e) = [known |-> k, upTime |-> u, outages |-> o,
                            state |-> e.up, cursor |-> e.ts]
  <2>1. sp.outages + (IF e.up = "down" THEN 1 ELSE 0) = o
    OBVIOUS
  <2>2. UptimeStep(acc, e) = [sp EXCEPT !.outages = sp.outages + (IF e.up = "down" THEN 1 ELSE 0),
                                        !.state = e.up, !.cursor = e.ts]
    BY <1>4, <1>5
  <2> HIDE DEF o
  <2>3. UptimeStep(acc, e) = [sp EXCEPT !.outages = o, !.state = e.up, !.cursor = e.ts]
    BY <2>1, <2>2
  <2> QED
    BY <2>3
<1> QED
  BY <1>1, <1>2, <1>6 DEF UAcc, k, u

Inside(i, start, end) == events[i].ts >= start /\ events[i].ts <= end

LEMMA LaneFold ==
  ASSUME events \in Seq(Event), RowsKnown, NEW first \in Acc, NEW start \in Nat, NEW end \in Nat
  PROVE  LET f == Fold(LaneStep, first, start, end)
             n == Len(events)
         IN  /\ f[0] = first /\ \A i \in 0..n : f[i] \in Acc
             /\ \A i \in 1..n : f[i] = IF Inside(i, start, end) THEN LaneStep(f[i - 1], events[i])
                                       ELSE f[i - 1]
<1> DEFINE n == Len(events)
           f == Fold(LaneStep, first, start, end)
           step == [i \in 1..n |-> [a \in Acc |->
                       IF Inside(i, start, end) THEN LaneStep(a, events[i]) ELSE a]]
           Is(g) == g = [i \in 0..n |-> IF i = 0 THEN first
                                        ELSE IF Inside(i, start, end)
                                        THEN LaneStep(g[i - 1], events[i]) ELSE g[i - 1]]
<1>1. n \in Nat /\ \A i \in 1..n : events[i] \in Event /\ events[i].up \in State3
  BY DEF RowsKnown, State3
<1>2. step \in [1..n -> [Acc -> Acc]]
  BY <1>1, LaneStepIs
<1>3. \A a \in Acc, i \in 1..n :
         step[i][a] = IF Inside(i, start, end) THEN LaneStep(a, events[i]) ELSE a
  OBVIOUS
<1> HIDE DEF step, n, f
<1>4. PICK g \in [0..n -> Acc] : g[0] = first /\ \A i \in 1..n : g[i] = step[i][g[i - 1]]
  <2>1. IsStep(step, n, Acc)
    BY <1>2 DEF IsStep
  <2>2. \E g : IsFold(g, n, Acc, first, step)
    BY <1>1, <2>1, Recursion
  <2> QED
    BY <2>2 DEF IsFold
<1>5. \A i \in 1..n : g[i] = IF Inside(i, start, end) THEN LaneStep(g[i - 1], events[i])
                             ELSE g[i - 1]
  <2> TAKE i \in 1..n
  <2>1. g[i - 1] \in Acc
    BY <1>1, <1>4
  <2>2. g[i] = step[i][g[i - 1]]
    BY <1>4
  <2> QED
    BY <1>3, <2>1, <2>2
<1>6. Is(g)
  BY <1>1, <1>4, <1>5
<1>7. f = CHOOSE h : Is(h)
  BY DEF Fold, Inside, f, n
<1> HIDE DEF Is
<1>8. Is(f)
  BY <1>6, <1>7
<1>9. /\ f[0] = first
      /\ \A i \in 1..n : f[i] = IF Inside(i, start, end) THEN LaneStep(f[i - 1], events[i])
                                ELSE f[i - 1]
  BY <1>1, <1>8 DEF Is
<1> DEFINE Same == {i \in Nat : i <= n => f[i] \in Acc}
<1>10. 0 \in Same /\ \A i \in Nat : i \in Same => i + 1 \in Same
  <2>1. 0 \in Same
    BY <1>9
  <2>2. ASSUME NEW i \in Nat, i \in Same, i + 1 <= n
        PROVE  f[i + 1] \in Acc
    <3>1. f[i] \in Acc /\ i + 1 \in 1..n /\ (i + 1) - 1 = i
      BY <1>1, <2>2
    <3>2. LaneStep(f[i], events[i + 1]) \in Acc
      BY <1>1, <3>1, LaneStepIs
    <3>3. f[i + 1] = IF Inside(i + 1, start, end) THEN LaneStep(f[i], events[i + 1]) ELSE f[i]
      BY <1>9, <3>1
    <3> QED
      BY <3>1, <3>2, <3>3
  <2> QED
    BY <2>1, <2>2
<1>11. Nat \subseteq Same
  <2> HIDE DEF Same
  <2> QED
    BY <1>10, Induct
<1>12. \A i \in 0..n : f[i] \in Acc
  BY <1>1, <1>11
<1> QED
  BY <1>9, <1>12 DEF f, n

LEMMA UptimeFold ==
  ASSUME events \in Seq(Event), RowsKnown, NEW first \in UAcc, NEW start \in Nat, NEW end \in Nat
  PROVE  LET f == Fold(UptimeStep, first, start, end)
             n == Len(events)
         IN  /\ f[0] = first /\ \A i \in 0..n : f[i] \in UAcc
             /\ \A i \in 1..n : f[i] = IF Inside(i, start, end) THEN UptimeStep(f[i - 1], events[i])
                                       ELSE f[i - 1]
<1> DEFINE n == Len(events)
           f == Fold(UptimeStep, first, start, end)
           step == [i \in 1..n |-> [a \in UAcc |->
                       IF Inside(i, start, end) THEN UptimeStep(a, events[i]) ELSE a]]
           Is(g) == g = [i \in 0..n |-> IF i = 0 THEN first
                                        ELSE IF Inside(i, start, end)
                                        THEN UptimeStep(g[i - 1], events[i]) ELSE g[i - 1]]
<1>1. n \in Nat /\ \A i \in 1..n : events[i] \in Event /\ events[i].up \in State3
  BY DEF RowsKnown, State3
<1>2. step \in [1..n -> [UAcc -> UAcc]]
  BY <1>1, UptimeStepIs
<1>3. \A a \in UAcc, i \in 1..n :
         step[i][a] = IF Inside(i, start, end) THEN UptimeStep(a, events[i]) ELSE a
  OBVIOUS
<1> HIDE DEF step, n, f
<1>4. PICK g \in [0..n -> UAcc] : g[0] = first /\ \A i \in 1..n : g[i] = step[i][g[i - 1]]
  <2>1. IsStep(step, n, UAcc)
    BY <1>2 DEF IsStep
  <2>2. \E g : IsFold(g, n, UAcc, first, step)
    BY <1>1, <2>1, Recursion
  <2> QED
    BY <2>2 DEF IsFold
<1>5. \A i \in 1..n : g[i] = IF Inside(i, start, end) THEN UptimeStep(g[i - 1], events[i])
                             ELSE g[i - 1]
  <2> TAKE i \in 1..n
  <2>1. g[i - 1] \in UAcc
    BY <1>1, <1>4
  <2>2. g[i] = step[i][g[i - 1]]
    BY <1>4
  <2> QED
    BY <1>3, <2>1, <2>2
<1>6. Is(g)
  BY <1>1, <1>4, <1>5
<1>7. f = CHOOSE h : Is(h)
  BY DEF Fold, Inside, f, n
<1> HIDE DEF Is
<1>8. Is(f)
  BY <1>6, <1>7
<1>9. /\ f[0] = first
      /\ \A i \in 1..n : f[i] = IF Inside(i, start, end) THEN UptimeStep(f[i - 1], events[i])
                                ELSE f[i - 1]
  BY <1>1, <1>8 DEF Is
<1> DEFINE Same == {i \in Nat : i <= n => f[i] \in UAcc}
<1>10. 0 \in Same /\ \A i \in Nat : i \in Same => i + 1 \in Same
  <2>1. 0 \in Same
    BY <1>9
  <2>2. ASSUME NEW i \in Nat, i \in Same, i + 1 <= n
        PROVE  f[i + 1] \in UAcc
    <3>1. f[i] \in UAcc /\ i + 1 \in 1..n /\ (i + 1) - 1 = i
      BY <1>1, <2>2
    <3>2. UptimeStep(f[i], events[i + 1]) \in UAcc
      BY <1>1, <3>1, UptimeStepIs
    <3>3. f[i + 1] = IF Inside(i + 1, start, end) THEN UptimeStep(f[i], events[i + 1]) ELSE f[i]
      BY <1>9, <3>1
    <3> QED
      BY <3>1, <3>2, <3>3
  <2> QED
    BY <2>1, <2>2
<1>11. Nat \subseteq Same
  <2> HIDE DEF Same
  <2> QED
    BY <1>10, Induct
<1>12. \A i \in 0..n : f[i] \in UAcc
  BY <1>1, <1>11
<1> QED
  BY <1>9, <1>12 DEF f, n

LEMMA MaxIs ==
  ASSUME NEW N \in Nat, NEW S \in SUBSET (0..N), S # {}
  PROVE  Max(S) \in S /\ \A y \in S : y <= Max(S)
<1> DEFINE T == {N - x : x \in S}
<1>1. T \in SUBSET Nat /\ T # {}
  <2>1. \A x \in S : x \in 0..N
    OBVIOUS
  <2>2. \A x \in S : N - x \in Nat
    BY <2>1
  <2> QED
    BY <2>2
<1>2. PICK m \in T : \A y \in T : m <= y
  <2> HIDE DEF T
  <2> QED
    BY <1>1, Least
<1>3. PICK x \in S : m = N - x
  BY <1>2
<1>4. \A y \in S : x >= y
  <2> TAKE y \in S
  <2>1. N - x <= N - y
    BY <1>2, <1>3
  <2> QED
    BY <2>1
<1>5. \E z \in S : \A y \in S : z >= y
  BY <1>4
<1>6. Max(S) \in S /\ \A y \in S : Max(S) >= y
  BY <1>5 DEF Max
<1> QED
  BY <1>6

LEMMA RowIs ==
  ASSUME events \in Seq(Event), RowsKnown
  PROVE  /\ Len(events) \in Nat /\ DOMAIN events = 1..Len(events)
         /\ \A k \in 1..Len(events) :
               events[k] \in Event /\ events[k].ts \in Nat /\ events[k].up \in State3
<1>1. \A k \in 1..Len(events) : events[k] \in Event /\ k \in DOMAIN events
  OBVIOUS
<1>2. \A e \in Event : e.ts \in Nat
  BY DEF Event
<1>3. \A k \in DOMAIN events : events[k].up \in State3
  BY DEF RowsKnown, State3
<1> QED
  BY <1>1, <1>2, <1>3

\* What is told of an instant before the window's first row.
LEMMA StateBeforeTells ==
  ASSUME events \in Seq(Event), RowsOrdered, RowsKnown, NEW start \in Nat
  PROVE  /\ StateBefore(start) \in State3
         /\ \A t \in Nat :
               /\ start <= t
               /\ \A k \in 1..Len(events) : events[k].ts >= start => events[k].ts > t
               => Tells(t, StateBefore(start))
<1> DEFINE n == Len(events)
<1>1. n \in Nat /\ DOMAIN events = 1..n /\ \A k \in 1..n : events[k].ts \in Nat
  BY RowIs
<1>2. CASE Before(start) = {}
  <2>1. StateBefore(start) = "unknown"
    BY <1>2 DEF StateBefore
  <2>2. \A k \in 1..n : events[k].ts >= start
    BY <1>1, <1>2 DEF Before
  <2> QED
    BY <1>1, <2>1, <2>2 DEF Tells, State3
<1>3. CASE Before(start) # {}
  <2> DEFINE j == Max(Before(start))
  <2>1. Before(start) \in SUBSET (0..n)
    BY <1>1 DEF Before
  <2>2. j \in Before(start) /\ \A y \in Before(start) : y <= j
    BY <1>1, <1>3, <2>1, MaxIs
  <2>3. StateBefore(start) = events[j].up
    BY <1>3 DEF StateBefore
  <2> HIDE DEF j
  <2>4. j \in 1..n /\ events[j].ts < start
    BY <1>1, <2>2 DEF Before
  <2>5. \A k \in 1..n : k > j => events[k].ts >= start
    BY <1>1, <2>2, <2>4 DEF Before
  <2> QED
    BY <1>1, <2>3, <2>4, <2>5 DEF Tells, State3, RowsKnown
<1> QED
  BY <1>2, <1>3

\* What the first i rows of a window make of its lane.
LaneAt(acc, i, start, end) ==
    /\ acc \in Acc /\ start <= acc.cursor /\ acc.cursor <= end
    /\ Fills(acc.segs, Len(acc.segs), start, acc.cursor, RowsTell) /\ Alternates(acc.segs, Len(acc.segs))
    /\ \A k \in (i + 1)..Len(events) : events[k].ts >= start => events[k].ts >= acc.cursor
    /\ \A t \in Nat :
          /\ acc.cursor <= t /\ t < end
          /\ \A k \in (i + 1)..Len(events) : events[k].ts >= start => events[k].ts > t
          => Tells(t, acc.state)

LEMMA LaneAtFirst ==
  ASSUME events \in Seq(Event), RowsOrdered, RowsKnown,
         NEW start \in Nat, NEW end \in Nat, start < end
  PROVE  LaneAt(LaneFirst(start), 0, start, end)
<1> DEFINE first == LaneFirst(start)
<1>1. /\ first.segs = << >> /\ first.cursor = start /\ first.state = StateBefore(start)
      /\ first = [segs |-> << >>, known |-> 0, upTime |-> 0,
                  state |-> StateBefore(start), cursor |-> start]
  BY DEF LaneFirst
<1>2. first \in Acc
  <2>1. << >> \in Seq(Seg) /\ 0 \in Nat
    OBVIOUS
  <2> QED
    BY <1>1, <2>1, StateBeforeTells DEF Acc
<1> HIDE DEF first
<1>3. /\ Fills(first.segs, Len(first.segs), start, first.cursor, RowsTell)
      /\ Alternates(first.segs, Len(first.segs))
  <2>1. Len(first.segs) = 0
    BY <1>1
  <2> QED
    BY <1>1, <2>1 DEF Fills, Alternates
<1>4. 0 + 1 = 1
  OBVIOUS
<1> QED
  BY <1>1, <1>2, <1>3, <1>4, StateBeforeTells DEF LaneAt, first

LEMMA LaneAtNext ==
  ASSUME events \in Seq(Event), RowsOrdered, RowsKnown,
         NEW start \in Nat, NEW end \in Nat, NEW i \in 1..Len(events),
         NEW acc, LaneAt(acc, i - 1, start, end)
  PROVE  /\ Inside(i, start, end) => LaneAt(LaneStep(acc, events[i]), i, start, end)
         /\ ~Inside(i, start, end) => LaneAt(acc, i, start, end)
<1> DEFINE n == Len(events)
           e == events[i]
<1>1. /\ n \in Nat /\ DOMAIN events = 1..n /\ i \in Nat /\ i \in 1..n
      /\ \A k \in 1..n : events[k] \in Event /\ events[k].ts \in Nat /\ events[k].up \in State3
      /\ acc \in Acc /\ acc.cursor \in Nat /\ acc.segs \in Seq(Seg) /\ acc.state \in State3
  BY RowIs DEF LaneAt, Acc
<1>2. \A k \in (i + 1)..n : k \in ((i - 1) + 1)..n
  BY <1>1
<1>3. i \in ((i - 1) + 1)..n /\ \A k \in ((i - 1) + 1)..n : k = i \/ k \in (i + 1)..n
  BY <1>1
<1> HIDE DEF n
<1>4. CASE Inside(i, start, end)
  <2> DEFINE r == LaneStep(acc, e)
             a == Advance(acc, e.ts)
  <2>1. /\ e \in Event /\ e.up \in State3 /\ e.ts \in Nat /\ start <= e.ts /\ e.ts <= end
        /\ acc.cursor <= e.ts
    <3>1. e \in Event /\ e.up \in State3 /\ e.ts \in Nat
      BY <1>1 DEF n
    <3>2. start <= e.ts /\ e.ts <= end
      BY <1>4, <3>1 DEF Inside
    <3> QED
      BY <1>3, <3>1, <3>2 DEF LaneAt, n
  <2> HIDE DEF e
  <2>2. r \in Acc /\ r.segs = a.segs /\ r.state = e.up /\ r.cursor = e.ts
    BY <1>1, <2>1, LaneStepIs
  <2>3. ASSUME NEW t \in Nat, acc.cursor <= t, t < e.ts
        PROVE  Tells(t, acc.state)
    <3>1. \A k \in 1..n : k > i => events[k].ts > e.ts
      BY <1>1 DEF RowsOrdered, e
    <3>2. \A k \in ((i - 1) + 1)..n : events[k].ts > t
      <4> TAKE k \in ((i - 1) + 1)..n
      <4>1. CASE k = i
        BY <1>1, <2>1, <2>3, <4>1 DEF e
      <4>2. CASE k > i
        BY <1>1, <2>1, <2>3, <3>1, <4>2
      <4> QED
        BY <1>1, <4>1, <4>2
    <3>3. t < end
      BY <2>1, <2>3
    <3> QED
      BY <2>3, <3>2, <3>3 DEF LaneAt, n
  <2>4. Fills(r.segs, Len(r.segs), start, r.cursor, RowsTell) /\ Alternates(r.segs, Len(r.segs))
    <3>1. CASE e.ts > acc.cursor
      <4>1. r.segs = Emit(acc.segs, acc.cursor, e.ts, acc.state)
        BY <1>1, <2>1, <2>2, <3>1, AdvanceIs
      <4>2. /\ Fills(acc.segs, Len(acc.segs), start, acc.cursor, RowsTell)
            /\ Alternates(acc.segs, Len(acc.segs))
        BY DEF LaneAt
      <4>3. \A t \in Nat : acc.cursor <= t /\ t < e.ts => acc.state \in RowsTell[t]
        BY <1>1, <2>3 DEF RowsTell
      <4>4. LET s == Emit(acc.segs, acc.cursor, e.ts, acc.state)
            IN  Fills(s, Len(s), start, e.ts, RowsTell) /\ Alternates(s, Len(s))
        BY <1>1, <2>1, <3>1, <4>2, <4>3, EmitFills
      <4> QED
        BY <2>2, <4>1, <4>4
    <3>2. CASE ~(e.ts > acc.cursor)
      <4>1. a = acc
        BY <3>2 DEF Advance
      <4>2. e.ts = acc.cursor
        BY <1>1, <2>1, <3>2
      <4> QED
        BY <2>2, <4>1, <4>2 DEF LaneAt
    <3> QED
      BY <3>1, <3>2
  <2>5. \A k \in (i + 1)..n : events[k].ts >= e.ts
    <3>1. \A k \in 1..n : k > i => events[k].ts > e.ts
      BY <1>1 DEF RowsOrdered, e
    <3> QED
      BY <1>1, <2>1, <3>1
  <2>6. ASSUME NEW t \in Nat, e.ts <= t, t < end,
               \A k \in (i + 1)..n : events[k].ts >= start => events[k].ts > t
        PROVE  Tells(t, e.up)
    <3>1. \A k \in 1..n : k > i => events[k].ts > t
      BY <1>1, <2>1, <2>5, <2>6
    <3> QED
      BY <1>1, <2>6, <3>1 DEF Tells, e, n
  <2> HIDE DEF r, a
  <2>7. start <= r.cursor /\ r.cursor <= end
    BY <2>1, <2>2
  <2>8. LaneAt(r, i, start, end)
    BY <2>2, <2>4, <2>5, <2>6, <2>7 DEF LaneAt, n
  <2> QED
    BY <1>4, <2>8 DEF r, e
<1>5. CASE ~Inside(i, start, end)
  <2>1. ASSUME NEW t \in Nat, acc.cursor <= t, t < end,
               \A k \in (i + 1)..n : events[k].ts >= start => events[k].ts > t
        PROVE  Tells(t, acc.state)
    <3>1. events[i].ts >= start => events[i].ts > t
      BY <1>1, <1>5, <2>1 DEF Inside, n
    <3>2. \A k \in ((i - 1) + 1)..n : events[k].ts >= start => events[k].ts > t
      BY <1>3, <2>1, <3>1
    <3> QED
      BY <2>1, <3>2 DEF LaneAt, n
  <2>2. LaneAt(acc, i, start, end)
    BY <1>2, <2>1 DEF LaneAt, n
  <2> QED
    BY <1>5, <2>2
<1> QED
  BY <1>4, <1>5

LEMMA LaneAtEach ==
  ASSUME events \in Seq(Event), RowsOrdered, RowsKnown,
         NEW start \in Nat, NEW end \in Nat, start < end
  PROVE  \A i \in 0..Len(events) :
             LaneAt(Fold(LaneStep, LaneFirst(start), start, end)[i], i, start, end)
<1> DEFINE n == Len(events)
           f == Fold(LaneStep, LaneFirst(start), start, end)
           At == {i \in Nat : i <= n => LaneAt(f[i], i, start, end)}
<1>1. n \in Nat
  OBVIOUS
<1>2. LaneAt(LaneFirst(start), 0, start, end) /\ LaneFirst(start) \in Acc
  BY LaneAtFirst DEF LaneAt
<1>3. /\ f[0] = LaneFirst(start)
      /\ \A i \in 1..n : f[i] = IF Inside(i, start, end) THEN LaneStep(f[i - 1], events[i])
                                ELSE f[i - 1]
  BY <1>2, LaneFold
<1> HIDE DEF f, n
<1>4. 0 \in At
  BY <1>2, <1>3
<1>5. ASSUME NEW i \in Nat, i \in At, i + 1 <= n
      PROVE  LaneAt(f[i + 1], i + 1, start, end)
  <2>1. i + 1 \in 1..n /\ (i + 1) - 1 = i /\ LaneAt(f[i], i, start, end)
    BY <1>1, <1>5
  <2>2. /\ Inside(i + 1, start, end) => LaneAt(LaneStep(f[i], events[i + 1]), i + 1, start, end)
        /\ ~Inside(i + 1, start, end) => LaneAt(f[i], i + 1, start, end)
    BY <2>1, LaneAtNext DEF n
  <2>3. f[i + 1] = IF Inside(i + 1, start, end) THEN LaneStep(f[i], events[i + 1]) ELSE f[i]
    BY <1>3, <2>1
  <2> QED
    BY <2>2, <2>3
<1>6. Nat \subseteq At
  <2>1. \A i \in Nat : i \in At => i + 1 \in At
    BY <1>5
  <2> HIDE DEF At
  <2> QED
    BY <1>4, <2>1, Induct
<1>7. \A i \in 0..n : LaneAt(f[i], i, start, end)
  BY <1>1, <1>6
<1> QED
  BY <1>7 DEF f, n

\* The runs of a window fill it and tell of every instant what the rows tell.
LEMMA LaneFills ==
  ASSUME events \in Seq(Event), RowsOrdered, RowsKnown,
         NEW start \in Nat, NEW end \in Nat, start < end
  PROVE  LET r == StatusSegments(start, end)
         IN  r \in Acc /\ Fills(r.segs, Len(r.segs), start, end, RowsTell) /\ Alternates(r.segs, Len(r.segs))
<1> DEFINE n == Len(events)
           acc == Fold(LaneStep, LaneFirst(start), start, end)[n]
           r == Advance(acc, end)
<1>1. n \in Nat /\ LaneAt(acc, n, start, end)
  BY LaneAtEach
<1>2. StatusSegments(start, end) = r
  BY DEF StatusSegments
<1> HIDE DEF acc, n
<1>3. acc \in Acc /\ acc.cursor \in Nat /\ acc.segs \in Seq(Seg) /\ acc.state \in State3
      /\ acc.cursor <= end /\ Fills(acc.segs, Len(acc.segs), start, acc.cursor, RowsTell)
      /\ Alternates(acc.segs, Len(acc.segs))
  BY <1>1 DEF LaneAt, Acc
<1>4. \A t \in Nat : acc.cursor <= t /\ t < end => acc.state \in RowsTell[t]
  <2>1. \A t \in Nat : acc.cursor <= t /\ t < end => Tells(t, acc.state)
    BY <1>1 DEF LaneAt, n
  <2> QED
    BY <1>3, <2>1 DEF RowsTell
<1>5. r \in Acc
  BY <1>3, AdvanceIs
<1>6. CASE end > acc.cursor
  <2>1. r.segs = Emit(acc.segs, acc.cursor, end, acc.state)
    BY <1>3, <1>6, AdvanceIs
  <2> DEFINE s == acc.segs
             c == acc.cursor
             u == acc.state
             e == Emit(s, c, end, u)
  <2>2. s \in Seq(Seg) /\ c \in Nat /\ c < end /\ u \in State3
    BY <1>3, <1>6
  <2>3. Fills(s, Len(s), start, c, RowsTell) /\ Alternates(s, Len(s))
    BY <1>3
  <2>4. \A t \in Nat : c <= t /\ t < end => u \in RowsTell[t]
    BY <1>4
  <2>5. r.segs = e
    BY <2>1
  <2> HIDE DEF r, s, c, u
  <2>6. Fills(e, Len(e), start, end, RowsTell) /\ Alternates(e, Len(e))
    BY <2>2, <2>3, <2>4, EmitFills
  <2> HIDE DEF e
  <2>7. Fills(r.segs, Len(r.segs), start, end, RowsTell) /\ Alternates(r.segs, Len(r.segs))
    BY <2>5, <2>6
  <2> QED
    BY <1>2, <1>5, <2>7 DEF r
<1>7. CASE ~(end > acc.cursor)
  <2>1. r = acc
    BY <1>7 DEF Advance
  <2>2. acc.cursor = end
    BY <1>3, <1>7
  <2> QED
    BY <1>2, <1>3, <1>5, <2>1, <2>2
<1> QED
  BY <1>6, <1>7

\* The same sums, with and without the runs.
Same(u, a) == u.known = a.known /\ u.upTime = a.upTime /\ u.state = a.state /\ u.cursor = a.cursor

LEMMA SpentSame ==
  ASSUME NEW u \in UAcc, NEW a \in Acc, Same(u, a), NEW ts \in Nat, a.cursor <= ts
  PROVE  /\ Spent(u, ts).known = Advance(a, ts).known
         /\ Spent(u, ts).upTime = Advance(a, ts).upTime
<1>1. /\ a.known \in Nat /\ a.upTime \in Nat /\ a.cursor \in Nat
      /\ u.known \in Int /\ u.upTime \in Int
      /\ u = [known |-> u.known, upTime |-> u.upTime, outages |-> u.outages,
              state |-> u.state, cursor |-> u.cursor]
  BY DEF Acc, UAcc
<1> DEFINE lapse == ts - a.cursor
           k == a.known + (IF a.state = "unknown" THEN 0 ELSE lapse)
           p == a.upTime + (IF a.state = "up" THEN lapse ELSE 0)
<1>2. Spent(u, ts) = [u EXCEPT !.known = k, !.upTime = p]
  BY DEF Spent, Same
<1>3. k \in Int /\ p \in Int /\ (~(ts > a.cursor) => k = a.known /\ p = a.upTime)
  BY <1>1
<1>4. Advance(a, ts).known = k /\ Advance(a, ts).upTime = p
  <2>1. CASE ts > a.cursor
    BY <2>1, AdvanceIs
  <2>2. CASE ~(ts > a.cursor)
    BY <1>3, <2>2 DEF Advance
  <2> QED
    BY <2>1, <2>2
<1> HIDE DEF k, p
<1>5. Spent(u, ts).known = k /\ Spent(u, ts).upTime = p
  BY <1>1, <1>2
<1> QED
  BY <1>4, <1>5

LEMMA UptimeSame ==
  ASSUME events \in Seq(Event), RowsOrdered, RowsKnown,
         NEW start \in Nat, NEW end \in Nat, start < end
  PROVE  LET u == Spent(Fold(UptimeStep, UptimeFirst(start), start, end)[Len(events)], end)
             r == StatusSegments(start, end)
         IN  u.known = r.known /\ u.upTime = r.upTime
<1> DEFINE n == Len(events)
           f == Fold(LaneStep, LaneFirst(start), start, end)
           g == Fold(UptimeStep, UptimeFirst(start), start, end)
           Equal == {i \in Nat : i <= n => Same(g[i], f[i])}
<1>1. n \in Nat /\ \A k \in 1..n : events[k] \in Event /\ events[k].ts \in Nat /\ events[k].up \in State3
  BY RowIs
<1>2. \A i \in 0..n : LaneAt(f[i], i, start, end)
  BY LaneAtEach
<1>3. LaneFirst(start) \in Acc /\ UptimeFirst(start) \in UAcc
      /\ Same(UptimeFirst(start), LaneFirst(start))
  <2>1. LaneFirst(start) \in Acc
    BY LaneAtFirst DEF LaneAt
  <2> QED
    BY <2>1, StateBeforeTells DEF UptimeFirst, LaneFirst, UAcc, Same
<1>4. /\ f[0] = LaneFirst(start)
      /\ \A i \in 1..n : f[i] = IF Inside(i, start, end) THEN LaneStep(f[i - 1], events[i])
                                ELSE f[i - 1]
  BY <1>3, LaneFold
<1>5. /\ g[0] = UptimeFirst(start) /\ \A i \in 0..n : g[i] \in UAcc
      /\ \A i \in 1..n : g[i] = IF Inside(i, start, end) THEN UptimeStep(g[i - 1], events[i])
                                ELSE g[i - 1]
  BY <1>3, UptimeFold
<1>6. StatusSegments(start, end) = Advance(f[n], end)
  BY DEF StatusSegments
<1> HIDE DEF f, g, n
<1>7. 0 \in Equal
  BY <1>3, <1>4, <1>5
<1>8. ASSUME NEW i \in Nat, i \in Equal, i + 1 <= n
      PROVE  Same(g[i + 1], f[i + 1])
  <2> DEFINE e == events[i + 1]
             a == f[i]
             u == g[i]
  <2>1. i + 1 \in 1..n /\ (i + 1) - 1 = i /\ Same(u, a) /\ i \in 0..n
    BY <1>1, <1>8
  <2>2. u \in UAcc /\ LaneAt(a, i, start, end) /\ a \in Acc /\ a.cursor \in Nat
    BY <1>2, <1>5, <2>1 DEF LaneAt, Acc
  <2>3. f[i + 1] = IF Inside(i + 1, start, end) THEN LaneStep(a, e) ELSE a
    BY <1>4, <2>1
  <2>4. g[i + 1] = IF Inside(i + 1, start, end) THEN UptimeStep(u, e) ELSE u
    BY <1>5, <2>1
  <2>5. CASE Inside(i + 1, start, end)
    <3>1. e \in Event /\ e.ts \in Nat /\ e.up \in State3 /\ e.ts >= start
      BY <1>1, <2>1, <2>5 DEF Inside
    <3>2. a.cursor <= e.ts
      <4>1. i + 1 \in (i + 1)..n
        BY <2>1
      <4> QED
        BY <2>2, <3>1, <4>1 DEF LaneAt, n
    <3> HIDE DEF e, a, u
    <3>3. Spent(u, e.ts).known = Advance(a, e.ts).known /\ Spent(u, e.ts).upTime = Advance(a, e.ts).upTime
      BY <2>1, <2>2, <3>1, <3>2, SpentSame
    <3>4. LET r == LaneStep(a, e)
          IN  /\ r.known = Advance(a, e.ts).known /\ r.upTime = Advance(a, e.ts).upTime
              /\ r.state = e.up /\ r.cursor = e.ts
      BY <2>2, <3>1, LaneStepIs
    <3>5. LET r == UptimeStep(u, e)
          IN  /\ r.known = Spent(u, e.ts).known /\ r.upTime = Spent(u, e.ts).upTime
              /\ r.state = e.up /\ r.cursor = e.ts
      <4>1. u = [known |-> u.known, upTime |-> u.upTime, outages |-> u.outages,
                 state |-> u.state, cursor |-> u.cursor]
        BY <2>2 DEF UAcc
      <4>2. /\ Spent(u, e.ts).known = u.known + (IF u.state = "unknown" THEN 0 ELSE e.ts - u.cursor)
            /\ Spent(u, e.ts).upTime = u.upTime + (IF u.state = "up" THEN e.ts - u.cursor ELSE 0)
        BY <4>1 DEF Spent
      <4> QED
        BY <2>2, <3>1, <4>2, UptimeStepIs
    <3> QED
      BY <2>3, <2>4, <2>5, <3>3, <3>4, <3>5 DEF Same
  <2>6. CASE ~Inside(i + 1, start, end)
    BY <2>1, <2>3, <2>4, <2>6
  <2> QED
    BY <2>5, <2>6
<1>9. Same(g[n], f[n])
  <2>1. \A i \in Nat : i \in Equal => i + 1 \in Equal
    BY <1>8
  <2>2. Nat \subseteq Equal
    <3> HIDE DEF Equal
    <3> QED
      BY <1>7, <2>1, Induct
  <2> QED
    BY <1>1, <2>2
<1>10. g[n] \in UAcc /\ f[n] \in Acc /\ f[n].cursor <= end
  BY <1>1, <1>2, <1>5 DEF LaneAt
<1>11. /\ Spent(g[n], end).known = Advance(f[n], end).known
       /\ Spent(g[n], end).upTime = Advance(f[n], end).upTime
  BY <1>9, <1>10, SpentSame
<1> QED
  BY <1>6, <1>11 DEF g, n

\* What is shown of an instant is what is told of it.
LEMMA ShownTells ==
  ASSUME NEW segs, Len(segs) \in Nat, DOMAIN segs = 1..Len(segs), NEW told,
         NEW start \in Nat, NEW end \in Nat,
         Fills(segs, Len(segs), start, end, told), NEW t \in start..(end - 1)
  PROVE  Shown(segs, t) \in told[t]
<1> DEFINE n == Len(segs)
           At(s) == s.from <= t /\ t < s.to
<1>1. n \in Nat /\ DOMAIN segs = 1..n /\ t \in Nat /\ start <= t /\ t < end
  OBVIOUS
<1>2. PICK i \in 1..n : At(segs[i])
  BY <1>1 DEF Fills
<1>3. \E s \in ToSet(segs) : At(s)
  BY <1>1, <1>2 DEF ToSet
<1> DEFINE s == CHOOSE x \in ToSet(segs) : At(x)
<1>4. s \in ToSet(segs) /\ At(s)
  BY <1>3
<1>5. Shown(segs, t) = s.up
  BY DEF Shown
<1> HIDE DEF s
<1>6. PICK j \in 1..n : s = segs[j]
  BY <1>1, <1>4 DEF ToSet
<1>7. segs[j].from <= t /\ t < segs[j].to
  BY <1>4, <1>6
<1>8. segs[j].up \in told[t]
  BY <1>1, <1>7 DEF Fills
<1> QED
  BY <1>5, <1>6, <1>8

LEMMA LaneAddsUp ==
  ASSUME LaneIInv, LaneHist
  PROVE  SegmentsAddUp
<1>1. events \in Seq(Event) /\ RowsOrdered /\ RowsKnown /\ now \in Nat
  BY TimelineAssumption DEF TimelineAssumption, LaneIInv, LaneTyped, LaneHist
<1> SUFFICES ASSUME NEW w \in Windows
             PROVE  LET r == StatusSegments(w[1], w[2])
                    IN  /\ Tile(r.segs, w[1], w[2])
                        /\ \A i \in 1..(Len(r.segs) - 1) : r.segs[i].up # r.segs[i + 1].up
                        /\ w[2] = now => LET u == Uptime(now - w[1])
                                         IN  u.known = r.known /\ u.upTime = r.upTime
  BY DEF SegmentsAddUp
<1> DEFINE start == w[1]
           end == w[2]
           r == StatusSegments(start, end)
<1>2. start \in Nat /\ end \in Nat /\ start < end
  BY <1>1 DEF Windows
<1> HIDE DEF start, end
<1>3. r \in Acc /\ Fills(r.segs, Len(r.segs), start, end, RowsTell) /\ Alternates(r.segs, Len(r.segs))
  BY <1>1, <1>2, LaneFills
<1> DEFINE segs == r.segs
           n == Len(segs)
<1>4. segs \in Seq(Seg) /\ Fills(segs, n, start, end, RowsTell) /\ Alternates(segs, n)
  BY <1>3 DEF Acc
<1>5. ASSUME end = now
      PROVE  LET u == Uptime(now - start)
             IN  u.known = r.known /\ u.upTime = r.upTime
  <2>1. now - (now - start) = start
    BY <1>1, <1>2
  <2>2. Uptime(now - start) = Spent(Fold(UptimeStep, UptimeFirst(start), start, now)[Len(events)], now)
    BY <2>1 DEF Uptime
  <2> QED
    BY <1>1, <1>2, <1>5, <2>2, UptimeSame
<1> HIDE DEF segs, r
<1>6. Tile(segs, start, end)
  <2>1. n # 0 /\ n \in Nat
    BY <1>2, <1>4 DEF Fills
  <2>2. segs # << >> /\ DOMAIN segs = 1..n
    BY <1>4, <2>1
  <2> QED
    BY <1>4, <2>1, <2>2 DEF Tile, Fills
<1>7. \A i \in 1..(n - 1) : segs[i].up # segs[i + 1].up
  BY <1>4 DEF Alternates
<1> QED
  BY <1>5, <1>6, <1>7 DEF segs, start, end, r

\* What the rows tell was seen.
LEMMA LaneInventsNothing ==
  ASSUME LaneIInv, LaneHist, failed = 0,
         NEW t \in 0..now, NEW u, Tells(t, u)
  PROVE  u \in {LastSeen(t), "unknown"}
<1>1. /\ now \in Nat /\ t \in Nat /\ t <= now
      /\ \A i \in DOMAIN events : /\ events[i].ts \in 1..now
                                  /\ events[i].up = seen[events[i].ts]
                                  /\ events[i].up \in {"up", "down"}
  BY TimelineAssumption DEF TimelineAssumption, LaneIInv, LaneTyped, LaneHist, RowsKnown, EventsTrue
<1> SUFFICES ASSUME NEW j \in DOMAIN events, events[j].ts <= t, u = events[j].up,
                    \A k \in DOMAIN events : k > j => events[k].ts > t
             PROVE  u = LastSeen(t)
  BY DEF Tells
<1> DEFINE told == {i \in 1..t : seen[i] \in {"up", "down"}}
           m == Max(told)
<1>2. told \in SUBSET (0..t) /\ events[j].ts \in told
  BY <1>1
<1>3. m \in told /\ \A y \in told : y <= m
  BY <1>1, <1>2, MaxIs
<1>4. LastSeen(t) = seen[m]
  BY <1>2 DEF LastSeen
<1> HIDE DEF m
<1>5. CASE m = events[j].ts
  BY <1>1, <1>4, <1>5
<1>6. CASE m > events[j].ts
  <2>1. m \in 1..now /\ m <= t /\ seen[m] \in {"up", "down"}
    BY <1>1, <1>3
  <2>2. \A k \in DOMAIN events : k > j => events[k].ts > m
    BY <1>1, <2>1
  <2> QED
    BY <1>4, <1>6, <2>1, <2>2 DEF LaneHist, SeenSince
<1> QED
  BY <1>1, <1>2, <1>3, <1>5, <1>6

LEMMA LaneIsTrueNow ==
  ASSUME LaneIInv, LaneHist
  PROVE  NothingInvented /\ WatchedIsKnown /\ NewestSurvives
<1>1. /\ events \in Seq(Event) /\ RowsOrdered /\ RowsKnown /\ now \in Nat
      /\ Heartbeat \in Nat \ {0} /\ Retention \in Nat
  BY TimelineAssumption DEF TimelineAssumption, LaneIInv, LaneTyped, LaneHist
<1>2. ASSUME NEW w \in Windows, NEW t \in w[1]..(w[2] - 1)
      PROVE  /\ Tells(t, Shown(StatusSegments(w[1], w[2]).segs, t))
             /\ t \in 0..(now - 1)
  <2> DEFINE start == w[1]
             end == w[2]
             segs == StatusSegments(start, end).segs
  <2>1. start \in Nat /\ end \in Nat /\ start < end /\ end <= now /\ t \in start..(end - 1)
    BY <1>1 DEF Windows
  <2> HIDE DEF start, end
  <2>2. segs \in Seq(Seg) /\ Fills(segs, Len(segs), start, end, RowsTell)
    BY <1>1, <2>1, LaneFills DEF Acc
  <2> HIDE DEF segs
  <2>3. Tells(t, Shown(segs, t))
    <3>1. Len(segs) \in Nat /\ DOMAIN segs = 1..Len(segs)
      BY <2>2
    <3>2. Shown(segs, t) \in RowsTell[t] /\ t \in Nat
      BY <2>1, <2>2, <3>1, ShownTells
    <3> QED
      BY <3>2 DEF RowsTell
  <2>4. t \in 0..(now - 1)
    BY <1>1, <2>1
  <2> QED
    BY <2>3, <2>4 DEF segs, start, end
<1>3. NothingInvented
  <2>1. \A t \in 0..(now - 1) : t \in 0..now
    BY <1>1
  <2> QED
    BY <1>2, <2>1, LaneInventsNothing DEF NothingInvented
<1>4. WatchedIsKnown
  <2> SUFFICES ASSUME failed = 0, NEW w \in Windows, NEW t \in w[1]..(w[2] - 1),
                      t >= Heartbeat, t - Heartbeat + 1 >= now - Retention,
                      \A i \in (t - Heartbeat + 1)..t : seen[i] \in {"up", "down"}
               PROVE  Shown(StatusSegments(w[1], w[2]).segs, t) # "unknown"
    BY DEF WatchedIsKnown
  <2> DEFINE u == Shown(StatusSegments(w[1], w[2]).segs, t)
  <2>1. Tells(t, u) /\ t \in 0..(now - 1)
    BY <1>2
  <2> HIDE DEF u
  <2>2. t \in 1..now /\ Watched(t)
    BY <1>1, <2>1 DEF Watched
  <2>3. PICK j \in DOMAIN events : events[j].ts \in (t - Heartbeat + 1)..t
    BY <2>2 DEF LaneHist, Beats
  <2>4. ~(events[j].ts > t)
    BY <1>1, <2>1, <2>3
  <2>5. PICK k \in DOMAIN events : u = events[k].up
    BY <2>1, <2>4 DEF Tells
  <2> QED
    BY <1>1, <2>5 DEF RowsKnown, u
<1>5. NewestSurvives
  <2> SUFFICES ASSUME failed = 0, LastSeen(now) # "unknown"
               PROVE  events # << >> /\ events[Len(events)].up = LastSeen(now)
    BY DEF NewestSurvives, Last
  <2>1. \E i \in 1..now : seen[i] \in {"up", "down"}
    BY DEF LastSeen
  <2>2. events # << >>
    BY <2>1 DEF LaneHist, Once
  <2>3. /\ Len(events) \in DOMAIN events
        /\ \A k \in DOMAIN events : ~(k > Len(events))
        /\ events[Len(events)].ts <= now
    BY <1>1, <2>2 DEF LaneIInv, EventsTrue
  <2>4. Tells(now, events[Len(events)].up)
    BY <2>3 DEF Tells
  <2>5. now \in 0..now
    BY <1>1
  <2>6. events[Len(events)].up \in {LastSeen(now), "unknown"}
    BY <2>4, <2>5, LaneInventsNothing
  <2>7. events[Len(events)].up # "unknown"
    BY <1>1, <2>3 DEF RowsKnown
  <2> QED
    BY <2>2, <2>6, <2>7
<1> QED
  BY <1>3, <1>4, <1>5

\* The lane of a backend covers its window, adds up to its uptime, and shows of every
\* instant what was last seen of it, and not less; and what was last seen is never pruned
\* (db.py:1770-1853, 1717-1767, 2016-2021).
THEOREM LanesAreTrue == LaneSpec => []LaneIsTrue
<1>1. LaneInit => LaneIInv /\ LaneHist
  BY InitLaneIInv, InitHist
<1>2. LaneIInv /\ LaneHist /\ [LaneNext]_laneVars => (LaneIInv /\ LaneHist)'
  BY NextLaneIInv, NextHist
<1>3. LaneIInv /\ LaneHist => LaneIsTrue
  <2>1. LaneIInv => LaneTypeOK
    BY DEF LaneIInv, LaneTyped, EventsTrue, Verdict, LaneTypeOK
  <2> QED
    BY <2>1, LaneAddsUp, LaneIsTrueNow DEF LaneIsTrue
<1> QED
  BY <1>1, <1>2, <1>3, PTL DEF LaneSpec
=============================================================================
